---- MODULE Spec2Model ----
(***************************************************************************)
(* Model of the Novrintech desktop client: the notification fallback       *)
(* chain (notification_system.py), the local upload registry with its      *)
(* duplicate check and the file-list refresh (main.py), and the keep-alive *)
(* workers (main.py, ai_service.py).                                       *)
(***************************************************************************)
EXTENDS Integers, Sequences, FiniteSets, TLC

VARIABLES
    \* ---- notification_system.py / main.py show_notification ----
    plyer_available,        \* EXESafeNotifications.plyer_available
    notification_enabled,   \* NovrintechDesktopApp.notification_enabled
    notification_loaded,    \* notification_available and hasattr(self, 'notification_system')
    notif_call,             \* what the last show_notification call did and returned
    popup_threads,          \* popup threads started and not yet run
    popup_shown,            \* what the last popup thread that ran did
    \* ---- main.py: local registry, upload, file list ----
    uploaded_files,         \* self.uploaded_files: records in insertion order
    history_file,           \* contents of upload_history.json
    saved_user_name,        \* "user_name" in user_settings.json
    selected_file,          \* self.selected_file (NoFile: attribute absent)
    check_duplicates,       \* self.check_duplicates (BooleanVar)
    api_key,                \* self.api_key
    now,                    \* datetime.now(), counted in successful uploads
    remote_files,           \* what the remote store lists
    files_tree,             \* rows of self.files_tree
    files_status_label,     \* text of self.files_status_label
    refresh_call,           \* what the last refresh_files call met
    upload_call,            \* what the last upload_file call did, in order
    chat_messages,          \* self.chat_messages
    store_form,             \* what upload_history.json is on disk (StoreForms)
    registry_type,          \* type of self.uploaded_files: "dict", or "other"
    startup,                \* how far __init__ has got (up: constructed)
    delete_call,            \* what the last delete / bulk delete / clear call did
    status_label,           \* text of self.status_label
    connection_status,      \* text of self.connection_status
    \* ---- main.py: keep-alive ----
    keep_alive_running,     \* self.keep_alive_running
    keep_alive_thread,      \* self.keep_alive_thread (0: None)
    workers,                \* keep_alive_worker threads started: where each one is
    after_queue,            \* callbacks posted with root.after(0, ...), not yet run
    log_window,             \* how many probes the two logs below follow
    probe_log,              \* outcomes of the first probes, in order
    applied_log,            \* statuses the first posted callbacks set, in order
    \* ---- ai_service.py: keep-alive ----
    ai_keepalive_running,   \* AIService.ai_keepalive_running
    ai_keepalive_thread,    \* AIService.ai_keepalive_thread (0: None)
    ai_workers,             \* ai_keepalive_worker threads started
    is_connected,           \* AIService.is_connected
    ai_probe,               \* outcome of the last probe of ai_keepalive_worker
    \* ---- main.py: AI status display ----
    ai_status_label,        \* text of self.ai_status_label
    ui_writer,              \* the thread that made the last write to a status widget
    ai_health_thread,       \* the check_ai_health thread started by setup_ai_tab
    \* ---- main.py, ai_service.py: the stop calls ----
    stop_call,              \* what the last stop_keep_alive / stop_ai_keepalive call did
    \* ---- main.py: get_file_hash ----
    hash_runs,              \* get_file_hash calls under way: file, reads, digest
    \* ---- main.py, ai_service.py: the AI chat ----
    ai_chat_history,        \* AIService.ai_chat_history
    ai_chat_messages,       \* NovrintechDesktopApp.ai_chat_messages
    ai_send_button,         \* state of self.ai_send_button
    ai_requests,            \* process_ai_request threads: message, position
    ai_after_queue,         \* callbacks process_ai_request posted, not yet run
    ai_serial,              \* messages sent so far (names the messages)
    send_call               \* what the last send_message_to_ai call returned

nvars == <<plyer_available, notification_enabled, notification_loaded,
           notif_call, popup_threads, popup_shown>>

rvars == <<store_form, registry_type, startup, delete_call>>

fvars == <<uploaded_files, history_file, saved_user_name, selected_file,
           check_duplicates, api_key, now, remote_files, files_tree,
           files_status_label, refresh_call, upload_call, chat_messages, rvars>>

cvars == <<status_label, connection_status>>

kvars == <<keep_alive_running, keep_alive_thread, workers, after_queue,
           log_window, probe_log, applied_log>>

dvars == <<ai_status_label, ui_writer, ai_health_thread>>

gvars == <<ai_chat_history, ai_chat_messages, ai_send_button, ai_requests,
           ai_after_queue, ai_serial, send_call>>

svars == <<stop_call, hash_runs, gvars>>

hvars == <<dvars, svars>>

avars == <<ai_keepalive_running, ai_keepalive_thread, ai_workers, is_connected,
           ai_probe, hvars>>

vars == <<nvars, fvars, cvars, kvars, avars>>

----------------------------------------------------------------------------
(* Bounds of the model *)

\* popup threads that may be waiting to run at once
MaxPopups == 2

\* successful uploads in one run (each takes one tick of the clock)
MaxUploads == 2

\* successful uploads of earlier runs behind the upload history found at start
MaxLoaded == 2

\* probes of keep_alive_worker whose outcome and status are kept in the logs
MaxProbes == 4

\* callbacks that may wait in Tk's queue at once
MaxQueue == 2

\* bytes in a file given to get_file_hash
MaxBytes == 2

\* bytes one f.read returns at most (4096 in get_file_hash)
MaxChunk == 2

\* keep-alive threads started per endpoint
MaxWorkers == 2

\* messages sent to the AI chat
MaxSends == 2

\* direct add_to_ai_history calls
MaxAiAdds == 53

\* direct add_chat_message calls
MaxChatAdds == 102

----------------------------------------------------------------------------
(* Python call results: a call returns a value or raises *)

Ret(v) == [kind |-> "return", value |-> v]

Raise == [kind |-> "raise", value |-> "Exception"]

\* what an external facility does when called
Outcomes == {"ok", "raise"}

NoCall ==
    [result |-> Ret("None"), attempted |-> <<>>, native |-> FALSE,
     popup |-> FALSE, console |-> FALSE, wrapper |-> FALSE, called |-> FALSE,
     p |-> "ok", t |-> "ok"]

----------------------------------------------------------------------------
(* notification_system.py *)

\* _try_plyer_notification with the try/except left out: plyer's exception escapes
try_plyer_unguarded(p) ==
    IF p = "ok" THEN Ret(TRUE) ELSE Raise

\* _try_plyer_notification with the "return True" after notify left out
try_plyer_no_return(p) == Ret(FALSE)

\* _try_plyer_notification: plyer.notification.notify inside try/except Exception
try_plyer_notification(p) ==
    IF p = "ok" THEN Ret(TRUE) ELSE Ret(FALSE)

\* _show_tkinter_notification with the "return True" after thread.start() left out
show_tkinter_no_return(t) == Ret(FALSE)

\* _show_tkinter_notification: create and start the popup thread inside
\* try/except Exception; True as soon as the thread is started
show_tkinter_notification(t) ==
    IF t = "ok" THEN Ret(TRUE) ELSE Ret(FALSE)

\* _console_notification: print the line, return True
console_notification == Ret(TRUE)

\* show_notification(title, message, timeout): the tiers attempted in order, the
\* value returned (or the exception that escapes), and the effects of the call:
\* native (plyer displayed it), popup (the popup thread was started), console
\* (the line was printed). p is what plyer does when called, t what creating and
\* starting the popup thread does.
show_notification(avail, p, t) ==
    LET step1 == IF avail THEN try_plyer_notification(p) ELSE Ret(FALSE)
        att1 == IF avail THEN <<"native">> ELSE <<>>
        nativeShown == avail /\ p = "ok"
    IN  IF step1.kind = "raise"
        THEN [result |-> Raise, attempted |-> att1, native |-> nativeShown,
              popup |-> FALSE, console |-> FALSE]
        ELSE
        LET success1 == step1.value
            step2 == IF ~success1 THEN show_tkinter_notification(t) ELSE Ret(success1)
            att2 == IF ~success1 THEN Append(att1, "popup") ELSE att1
            popupStarted == ~success1 /\ t = "ok"
        IN  IF step2.kind = "raise"
            THEN [result |-> Raise, attempted |-> att2, native |-> nativeShown,
                  popup |-> popupStarted, console |-> FALSE]
            ELSE
            LET success2 == step2.value
                step3 == IF ~success2 THEN console_notification ELSE Ret(success2)
                att3 == IF ~success2 THEN Append(att2, "console") ELSE att2
            IN  IF step3.kind = "raise"
                THEN [result |-> Raise, attempted |-> att3, native |-> nativeShown,
                      popup |-> popupStarted, console |-> FALSE]
                \* the value of _console_notification is not assigned: success
                \* is returned as the popup tier left it
                ELSE [result |-> Ret(success2),
                      attempted |-> att3, native |-> nativeShown,
                      popup |-> popupStarted, console |-> ~success2]

\* the tier that took the message in a call: the last one attempted
TookBy(call) ==
    IF Len(call.attempted) = 0 THEN "none" ELSE call.attempted[Len(call.attempted)]

\* the state after a call of EXESafeNotifications.show_notification; notif_call
\* keeps what plyer (p) and the popup thread's start (t) did in that call
ApplyNotification(p, t, viaWrapper) ==
    LET c == show_notification(plyer_available, p, t)
    IN  /\ notif_call' = [result |-> IF viaWrapper /\ c.result.kind = "raise"
                                     THEN Ret(FALSE)   \* the wrapper's except Exception
                                     ELSE c.result,
                          attempted |-> c.attempted,
                          native |-> c.native, popup |-> c.popup,
                          console |-> c.console, wrapper |-> viaWrapper,
                          called |-> TRUE, p |-> p, t |-> t]
        /\ popup_threads' = IF c.popup THEN popup_threads + 1 ELSE popup_threads
        /\ UNCHANGED popup_shown

\* EXESafeNotifications.show_notification called directly (module-level
\* show_notification, test_notifications.py)
ShowNotification ==
    \E p \in Outcomes, t \in Outcomes :
        /\ popup_threads < MaxPopups
        /\ ApplyNotification(p, t, FALSE)
        /\ UNCHANGED <<plyer_available, notification_enabled, notification_loaded>>
        /\ UNCHANGED <<fvars, cvars, kvars, avars>>

\* the popup thread: show_popup runs Tk(), messagebox.showinfo, destroy inside
\* try/except Exception; b is what tkinter does there
PopupThreadRun ==
    \E b \in Outcomes :
        /\ popup_threads > 0
        /\ popup_shown' = IF b = "ok" THEN "shown" ELSE "failed"
        /\ popup_threads' = popup_threads - 1
        /\ UNCHANGED <<plyer_available, notification_enabled, notification_loaded,
                       notif_call>>
        /\ UNCHANGED <<fvars, cvars, kvars, avars>>

----------------------------------------------------------------------------
(* main.py: the application's wrapper *)

\* NovrintechDesktopApp.show_notification
AppNotification(enabled, p, t) ==
    IF ~enabled
    THEN \* return (None)
         /\ notif_call' = [NoCall EXCEPT !.wrapper = TRUE, !.called = TRUE]
         /\ UNCHANGED <<popup_threads, popup_shown>>
    ELSE IF notification_loaded
    THEN ApplyNotification(p, t, TRUE)
    ELSE \* console fallback of the wrapper: print, return True
         /\ notif_call' = [NoCall EXCEPT !.result = Ret(TRUE),
                                         !.attempted = <<"console">>,
                                         !.console = TRUE,
                                         !.wrapper = TRUE, !.called = TRUE]
         /\ UNCHANGED <<popup_threads, popup_shown>>

\* test_notification
TestNotification ==
    \E p \in Outcomes, t \in Outcomes :
        /\ popup_threads < MaxPopups
        /\ AppNotification(notification_enabled, p, t)
        /\ UNCHANGED <<plyer_available, notification_enabled, notification_loaded>>
        /\ UNCHANGED <<fvars, cvars, kvars, avars>>

\* toggle_notifications: store the checkbox value, then notify
ToggleNotifications ==
    \E v \in BOOLEAN, p \in Outcomes, t \in Outcomes :
        /\ popup_threads < MaxPopups
        /\ notification_enabled' = v
        /\ AppNotification(v, p, t)
        /\ UNCHANGED <<plyer_available, notification_loaded>>
        /\ UNCHANGED <<fvars, cvars, kvars, avars>>

----------------------------------------------------------------------------
(* main.py: the local registry and the upload path *)

NoFile == "NoFile"

\* base names of the files the user can select
FileNames == {"a.txt", "b.txt", "c.txt"}

\* what a selected file can contain when it is read
Contents == {"c1", "c2"}

\* text of user_name_entry after strip()
UserEntries == {"", "A", "Al"}

\* len(user_name)
NameLen(u) == CASE u = "" -> 0 [] u = "A" -> 1 [] OTHER -> 2

\* text of key_entry
Keys == {"", "key"}

\* what requests.post(.../file/upload) does
UploadOutcomes ==
    {"200", "500", "other", "timeout", "connection_error", "request_exception"}

\* what requests.get(.../file/list) and requests.get(.../health) do
GetOutcomes == {"200", "non200", "request_exception"}

\* get_file_hash: the MD5 digest of the bytes read from the file; equal bytes give
\* equal digests, and the two contents of the model have different digests
get_file_hash(content) ==
    CASE content = "c1" -> "md5_1" [] content = "c2" -> "md5_2"

\* filename in self.uploaded_files
HasName(reg, n) == \E i \in DOMAIN reg : reg[i].name = n

IndexOf(reg, n) == CHOOSE i \in DOMAIN reg : reg[i].name = n

\* the duplicate loop with the name test inverted (== for !=)
DuplicatesOfSameName(reg, filename, h) ==
    SelectSeq(reg, LAMBDA r : r.hash = h /\ r.name = filename)

\* the records the duplicate loop stops at, in iteration order:
\* data.get("hash") == file_hash and stored_filename != filename
DuplicatesOf(reg, filename, h) ==
    SelectSeq(reg, LAMBDA r : r.hash = h /\ r.name # filename)

\* upload_filename = f"[{user_name}]_{filename}"
UploadFilename(user, filename) == <<user, filename>>

\* the update without the "if filename in self.uploaded_files" branch: the
\* record is always written anew
UpsertAlwaysNew(reg, filename, t, h, fid, user) ==
    LET fresh == [name |-> filename, count |-> 1, first_upload |-> t,
                  last_upload |-> t, hash |-> h, file_id |-> fid,
                  uploaded_by |-> user,
                  upload_filename |-> <<user, filename>>]
    IN  IF \E i \in DOMAIN reg : reg[i].name = filename
        THEN [reg EXCEPT ![CHOOSE i \in DOMAIN reg : reg[i].name = filename] = fresh]
        ELSE Append(reg, fresh)

\* the update of self.uploaded_files after a 200 response
UpsertRecord(reg, filename, t, h, fid, user) ==
    IF HasName(reg, filename)
    THEN [reg EXCEPT ![IndexOf(reg, filename)] =
             [@ EXCEPT !.count = @ + 1, !.last_upload = t, !.uploaded_by = user]]
    ELSE Append(reg, [name |-> filename, count |-> 1, first_upload |-> t,
                      last_upload |-> t, hash |-> h, file_id |-> fid,
                      uploaded_by |-> user,
                      upload_filename |-> UploadFilename(user, filename)])

\* what upload_history.json can be: absent, a JSON object written by
\* save_file_history, text that is not JSON, JSON that is not an object
StoreForms == {"missing", "registry", "garbled", "not_object"}

\* json.dump(self.uploaded_files) with the members written in reverse order
json_dump_reversed(reg) ==
    [i \in DOMAIN reg |->
        LET r == reg[Len(reg) + 1 - i]
        IN  [key |-> r.name,
             value |-> [count |-> r.count, first_upload |-> r.first_upload,
                        last_upload |-> r.last_upload, hash |-> r.hash,
                        file_id |-> r.file_id, uploaded_by |-> r.uploaded_by,
                        upload_filename |-> r.upload_filename]]]

\* json.dump(self.uploaded_files, f, indent=2): one member per key, in the
\* dict's order, the key as the member's name and the record as its value
json_dump(reg) ==
    [i \in DOMAIN reg |->
        [key |-> reg[i].name,
         value |-> [count |-> reg[i].count, first_upload |-> reg[i].first_upload,
                    last_upload |-> reg[i].last_upload, hash |-> reg[i].hash,
                    file_id |-> reg[i].file_id, uploaded_by |-> reg[i].uploaded_by,
                    upload_filename |-> reg[i].upload_filename]]]

\* json.load of an object: the members are inserted in the order read; a name
\* read again replaces the value and keeps the position
RECURSIVE json_load(_)
json_load(text) ==
    IF Len(text) = 0 THEN <<>>
    ELSE LET before == json_load(SubSeq(text, 1, Len(text) - 1))
             m == text[Len(text)]
             rec == [name |-> m.key, count |-> m.value.count,
                     first_upload |-> m.value.first_upload,
                     last_upload |-> m.value.last_upload, hash |-> m.value.hash,
                     file_id |-> m.value.file_id,
                     uploaded_by |-> m.value.uploaded_by,
                     upload_filename |-> m.value.upload_filename]
         IN  IF HasName(before, m.key)
             THEN [before EXCEPT ![IndexOf(before, m.key)] = rec]
             ELSE Append(before, rec)

\* load_file_history: what self.uploaded_files is afterwards. A missing file and
\* a file json.load raises on give {}; any JSON value json.load returns is kept
\* as it is, a dict or not
load_file_history(form, text) ==
    CASE form = "missing" -> [type |-> "dict", reg |-> <<>>]
      [] form = "garbled" -> [type |-> "dict", reg |-> <<>>]
      [] form = "not_object" -> [type |-> "other", reg |-> <<>>]
      [] OTHER -> [type |-> "dict", reg |-> json_load(text)]

\* most messages self.chat_messages keeps
ChatLimit == 100

\* add_chat_message: append, keep the last ChatLimit messages
add_chat_message(msgs, m) ==
    LET all == Append(msgs, m)
    IN  IF Len(all) > ChatLimit
        THEN SubSeq(all, Len(all) - ChatLimit + 1, Len(all))
        ELSE all

Ev(e, a) == [ev |-> e, arg |-> a]

\* no delete_file, bulk_delete_files or clear_upload_history call yet
NoDelete ==
    [op |-> "none", removed |-> {}, acked |-> {}, optin |-> {}, failed |-> {},
     saved |-> FALSE]

\* no stop_keep_alive or stop_ai_keepalive call yet
NoStop == [who |-> "none", join |-> "none", result |-> Ret("None")]

\* no upload_file call yet
NoUpload == [file |-> NoFile, digest |-> "none", checked |-> FALSE, events |-> <<>>]

\* an upload_file call that returns before the request: only what it did is kept
UploadReturns(call) ==
    /\ upload_call' = call
    /\ UNCHANGED <<uploaded_files, history_file, selected_file, now, remote_files,
                   chat_messages, nvars, rvars>>

\* an upload_file call that stops at a validation error
UploadError(what) == UploadReturns([NoUpload EXCEPT !.events = <<Ev("error", what)>>])

\* the duplicate check with the answer of askyesno ignored ("if not result:
\* return" left out)
DuplicateWarningsIgnored(enabled, reg, filename, h, k) ==
    LET dups == IF enabled
                THEN SelectSeq(reg, LAMBDA r : r.hash = h /\ r.name # filename)
                ELSE <<>>
    IN  [events |-> [i \in 1..(2 * Len(dups)) |->
                        IF i % 2 = 1
                        THEN [ev |-> "warn", arg |-> dups[(i + 1) \div 2].name]
                        ELSE [ev |-> "answer", arg |-> (i \div 2) <= k]],
         declined |-> FALSE,
         answers |-> k <= Len(dups)]

\* the duplicate check of upload_file: for each record the loop stops at, the
\* warning (askyesno) and the user's answer, in order. The user confirms the
\* first k warnings; a declined warning returns.
DuplicateWarnings(enabled, reg, filename, h, k) ==
    LET dups == IF enabled THEN DuplicatesOf(reg, filename, h) ELSE <<>>
        asked == IF k < Len(dups) THEN k + 1 ELSE Len(dups)
    IN  [events |-> [i \in 1..(2 * asked) |->
                        IF i % 2 = 1 THEN Ev("warn", dups[(i + 1) \div 2].name)
                        ELSE Ev("answer", (i \div 2) <= k)],
         declined |-> k < Len(dups),
         answers |-> k <= Len(dups)]

\* self.show_notification called from a handler of the application
NotifyFromHandler ==
    IF notification_enabled /\ notification_loaded
    THEN \E p \in Outcomes, t \in Outcomes :
            /\ popup_threads < MaxPopups
            /\ AppNotification(notification_enabled, p, t)
    ELSE AppNotification(notification_enabled, "ok", "ok")

\* the test of the response with status 500 taken for a confirmation too
upload_confirmed_lenient(outcome) == outcome \in {"200", "500"}

\* "if response.status_code == 200"
upload_confirmed(outcome) == outcome = "200"

\* upload_file from the request on; call is what the call did so far
UploadRequest(user, filename, h, call, outcome) ==
    LET sent == [call EXCEPT !.events = @ \o <<Ev("post", filename),
                                                Ev("response", outcome)>>]
    IN  IF upload_confirmed(outcome)
        THEN /\ now < MaxUploads
             /\ now' = now + 1
             /\ remote_files' = Append(remote_files,
                    [file_id |-> now', file_name |-> UploadFilename(user, filename),
                     created_at |-> now'])
             /\ uploaded_files' = UpsertRecord(uploaded_files, filename, now', h,
                                               now', user)
             /\ history_file' = json_dump(uploaded_files')   \* save_file_history
             /\ store_form' = "registry"
             /\ UNCHANGED <<registry_type, startup, delete_call>>
             /\ chat_messages' = add_chat_message(chat_messages,
                    [type |-> "upload", title |-> filename, user |-> user])
             \* auto_notify_upload_var
             /\ \E notify \in BOOLEAN :
                   IF notify
                   THEN NotifyFromHandler
                   ELSE UNCHANGED <<notif_call, popup_threads, popup_shown>>
             /\ UNCHANGED <<plyer_available, notification_enabled, notification_loaded>>
             /\ selected_file' = NoFile
             /\ upload_call' = sent
        ELSE UploadReturns(sent)

\* upload_file
UploadFile ==
    /\ UNCHANGED <<check_duplicates, api_key, files_tree, files_status_label,
                   refresh_call, cvars, kvars, avars>>
    /\ \E user \in UserEntries :
        IF user = "" \/ NameLen(user) < 2
        THEN /\ UploadError(IF user = "" THEN "name_empty" ELSE "name_short")
             /\ UNCHANGED saved_user_name
        ELSE /\ saved_user_name' = user            \* save_user_name
             /\ IF selected_file = NoFile
                THEN UploadError("no_file")
                ELSE IF api_key = ""
                THEN UploadError("no_key")
                ELSE \E content \in Contents, k \in 0..Len(uploaded_files) :
                        LET h == get_file_hash(content)
                            w == DuplicateWarnings(check_duplicates, uploaded_files,
                                                   selected_file, h, k)
                            call == [file |-> selected_file, digest |-> h,
                                     checked |-> check_duplicates,
                                     events |-> w.events]
                        IN  /\ w.answers
                            /\ IF w.declined
                               THEN UploadReturns(call)
                               ELSE \E outcome \in UploadOutcomes :
                                       UploadRequest(user, selected_file, h,
                                                     call, outcome)

\* browse_file
BrowseFile ==
    \E f \in FileNames :
        /\ selected_file' = f
        /\ UNCHANGED <<uploaded_files, history_file, saved_user_name,
                       check_duplicates, api_key, now, remote_files, files_tree,
                       files_status_label, refresh_call, upload_call,
                       chat_messages, rvars, nvars, cvars, kvars, avars>>

\* the "Check for duplicates before upload" checkbox
ToggleCheckDuplicates ==
    /\ check_duplicates' = ~check_duplicates
    /\ UNCHANGED <<uploaded_files, history_file, saved_user_name, selected_file,
                   api_key, now, remote_files, files_tree, files_status_label,
                   refresh_call, upload_call, chat_messages, rvars, nvars,
                   cvars, kvars, avars>>

----------------------------------------------------------------------------
(* main.py: the file list *)

\* the rows refresh_files inserts from the server's list
RemoteRows(listing) ==
    [i \in DOMAIN listing |->
        [file_id |-> listing[i].file_id, file_name |-> listing[i].file_name,
         upload_date |-> listing[i].created_at]]

\* a name without uploader prefix, as a name of the list: the names of the list
\* are pairs (uploader prefix, base name), see UploadFilename
PlainName(n) == <<"", n>>

\* the rows refresh_files_from_history inserts: one per record
LocalRows(reg) ==
    [i \in DOMAIN reg |->
        [file_id |-> reg[i].file_id, file_name |-> PlainName(reg[i].name),
         upload_date |-> reg[i].last_upload]]

\* refresh_files_from_history: the rows, and the status text it leaves
refresh_files_from_history(reg, status) ==
    [tree |-> LocalRows(reg),
     status |-> IF Len(reg) = 0 THEN "No files found in history" ELSE status]

\* refresh_files: the rows and the status text after the call
refresh_files(key, reg, listing, tree, outcome) ==
    IF key = ""
    THEN [tree |-> tree, status |-> "Please configure API key first"]
    ELSE IF outcome = "200"
    THEN [tree |-> RemoteRows(listing),
          status |-> IF Len(listing) = 0 THEN "No files found. Upload some files first!"
                     ELSE "Loaded files from server"]
    ELSE IF outcome = "non200"
    THEN refresh_files_from_history(reg, "Using local history (server list unavailable)")
    ELSE refresh_files_from_history(reg, "Using local history (connection error)")

\* refresh_files (the Refresh button, F5)
RefreshFiles ==
    \E outcome \in GetOutcomes :
        LET r == refresh_files(api_key, uploaded_files, remote_files, files_tree, outcome)
        IN  /\ files_tree' = r.tree
            /\ files_status_label' = r.status
            /\ refresh_call' = [outcome |-> IF api_key = "" THEN "no_key" ELSE outcome,
                                result |-> Ret("None")]
            /\ UNCHANGED <<uploaded_files, history_file, saved_user_name,
                           selected_file, check_duplicates, api_key, now,
                           remote_files, upload_call, chat_messages, rvars,
                           nvars, cvars, kvars, avars>>

\* test_connection
TestConnection ==
    \E key \in Keys, outcome \in GetOutcomes :
        /\ api_key' = key
        /\ IF key = ""
           THEN UNCHANGED <<cvars, ui_writer>>
           ELSE /\ status_label' = IF outcome = "200" THEN "Status: Connected"
                                   ELSE "Status: Connection failed"
                /\ connection_status' = CASE outcome = "200" -> "Connected"
                                          [] outcome = "non200" -> "Failed"
                                          [] OTHER -> "Error"
                /\ ui_writer' = "interactive"
        /\ UNCHANGED <<uploaded_files, history_file, saved_user_name, selected_file,
                       check_duplicates, now, remote_files, files_tree,
                       files_status_label, refresh_call, upload_call,
                       chat_messages, rvars, nvars, kvars>>
        /\ UNCHANGED <<ai_keepalive_running, ai_keepalive_thread, ai_workers,
                       is_connected, ai_probe, ai_status_label, ai_health_thread,
                       svars>>

----------------------------------------------------------------------------
(* main.py: removing records *)

\* the file_id shown for a record without "file_id": data.get("file_id", "Unknown")
NoId == 0

\* a record of upload_history.json that has no "file_id" and no "hash" key: the
\* .get defaults of refresh_files_from_history and upload_file apply to it
LegacyRecord(n) ==
    [name |-> n, count |-> 1, first_upload |-> 0, last_upload |-> 0,
     hash |-> "none", file_id |-> NoId, uploaded_by |-> "Unknown",
     upload_filename |-> <<"", "">>]

\* file_name in self.uploaded_files, for the name of a row
RowInRegistry(reg, row) ==
    row.file_name[1] = "" /\ HasName(reg, row.file_name[2])

\* del self.uploaded_files[n] for every n of names
RemoveNames(reg, names) == SelectSeq(reg, LAMBDA r : r.name \notin names)

\* the remote store after it deleted the files with these ids
RemoteDelete(listing, ids) == SelectSeq(listing, LAMBDA e : e.file_id \notin ids)

\* the remote store holds a file with this id
HoldsId(listing, fid) == \E i \in DOMAIN listing : listing[i].file_id = fid

\* self.refresh_files() called at the end of a handler, on the registry and
\* the remote store as the handler leaves them
RefreshWith(reg, listing, fetch) ==
    LET r == refresh_files(api_key, reg, listing, files_tree, fetch)
    IN  /\ files_tree' = r.tree
        /\ files_status_label' = r.status
        /\ refresh_call' = [outcome |-> IF api_key = "" THEN "no_key" ELSE fetch,
                            result |-> Ret("None")]

\* a delete handler that returns without touching registry, store or list
DeleteReturns(call) ==
    /\ delete_call' = call
    /\ UNCHANGED <<uploaded_files, history_file, store_form, remote_files,
                   files_tree, files_status_label, refresh_call, chat_messages,
                   nvars>>

\* a delete handler that returns after setting the status text only
DeleteFails(call, status) ==
    /\ delete_call' = call
    /\ files_status_label' = status
    /\ UNCHANGED <<uploaded_files, history_file, store_form, remote_files,
                   files_tree, refresh_call, chat_messages, nvars>>

\* delete_file, on the selected row sel (0: nothing selected)
DeleteFile ==
    /\ UNCHANGED <<saved_user_name, selected_file, check_duplicates, api_key, now,
                   upload_call, registry_type, startup, cvars, kvars, avars>>
    /\ \E sel \in 0..Len(files_tree) :
        IF sel = 0 \/ api_key = ""
        THEN DeleteReturns([NoDelete EXCEPT !.op = "delete"])
        ELSE
        LET row == files_tree[sel]
            known == RowInRegistry(uploaded_files, row)
            names == IF known THEN {row.file_name[2]} ELSE {}
        IN  \E answer \in BOOLEAN :
            IF row.file_id = NoId
            THEN \* "Remove from local history instead?"
                 IF answer /\ known
                 THEN \E fetch \in GetOutcomes :
                        /\ uploaded_files' = RemoveNames(uploaded_files, names)
                        /\ history_file' = json_dump(uploaded_files')
                        /\ store_form' = "registry"
                        /\ RefreshWith(uploaded_files', remote_files, fetch)
                        /\ delete_call' = [op |-> "delete", removed |-> names,
                                           acked |-> {}, optin |-> {row.file_name},
                                           failed |-> {}, saved |-> TRUE]
                        /\ UNCHANGED <<remote_files, chat_messages, nvars>>
                 ELSE DeleteReturns([NoDelete EXCEPT !.op = "delete",
                          !.optin = IF answer THEN {row.file_name} ELSE {}])
            ELSE IF ~answer
            THEN DeleteReturns([NoDelete EXCEPT !.op = "delete"])
            ELSE \E outcome \in GetOutcomes :
                 IF outcome = "200"
                 THEN /\ HoldsId(remote_files, row.file_id)
                      /\ remote_files' = RemoteDelete(remote_files, {row.file_id})
                      /\ chat_messages' = add_chat_message(chat_messages,
                            [type |-> "delete", title |-> row.file_name[2],
                             user |-> IF saved_user_name = "" THEN "Unknown"
                                      ELSE saved_user_name])
                      \* auto_notify_delete_var
                      /\ \E notify \in BOOLEAN :
                            IF notify
                            THEN NotifyFromHandler
                            ELSE UNCHANGED <<notif_call, popup_threads, popup_shown>>
                      /\ UNCHANGED <<plyer_available, notification_enabled,
                                     notification_loaded>>
                      /\ uploaded_files' = RemoveNames(uploaded_files, names)
                      /\ IF known
                         THEN /\ history_file' = json_dump(uploaded_files')
                              /\ store_form' = "registry"
                         ELSE UNCHANGED <<history_file, store_form>>
                      /\ \E fetch \in GetOutcomes :
                            RefreshWith(uploaded_files', remote_files', fetch)
                      /\ delete_call' = [op |-> "delete", removed |-> names,
                                         acked |-> {row.file_name}, optin |-> {},
                                         failed |-> {}, saved |-> known]
                 ELSE DeleteFails([NoDelete EXCEPT !.op = "delete",
                                                   !.failed = {row.file_name}],
                                  IF outcome = "non200" THEN "Delete failed"
                                  ELSE "Delete error")

\* bulk_delete_files saving only when no deletion failed
bulk_saves_if_clean(deleted_count, failed_count) ==
    deleted_count > 0 /\ failed_count = 0

\* "if deleted_count > 0: self.save_file_history()"
bulk_saves(deleted_count, failed_count) == deleted_count > 0

\* bulk_delete_files, on the selected rows sel; outs is what requests.delete
\* does for each of them
BulkDeleteFiles ==
    /\ UNCHANGED <<saved_user_name, selected_file, check_duplicates, api_key, now,
                   upload_call, registry_type, startup, cvars, kvars, avars>>
    /\ \E sel \in SUBSET (DOMAIN files_tree) :
        IF sel = {} \/ api_key = ""
        THEN DeleteReturns([NoDelete EXCEPT !.op = "bulk"])
        ELSE \E answer \in BOOLEAN :
             IF ~answer
             THEN DeleteReturns([NoDelete EXCEPT !.op = "bulk"])
             ELSE \E outs \in [sel -> GetOutcomes] :
                LET unknown == {i \in sel : files_tree[i].file_id = NoId}
                    acks == {i \in sel \ unknown : outs[i] = "200"}
                    fails == sel \ (unknown \cup acks)
                    localOnly == {i \in unknown :
                                     RowInRegistry(uploaded_files, files_tree[i])}
                    gone == {files_tree[i].file_name[2] :
                                i \in {j \in localOnly \cup acks :
                                         RowInRegistry(uploaded_files, files_tree[j])}}
                    deleted_count == Cardinality(localOnly) + Cardinality(acks)
                    failed_count == Cardinality(fails)
                    saves == bulk_saves(deleted_count, failed_count)
                IN  /\ \A i \in unknown : outs[i] = "non200"   \* no request is made
                    /\ \A i \in acks : HoldsId(remote_files, files_tree[i].file_id)
                    /\ remote_files' = RemoteDelete(remote_files,
                                          {files_tree[i].file_id : i \in acks})
                    /\ uploaded_files' = RemoveNames(uploaded_files, gone)
                    /\ IF saves
                       THEN /\ history_file' = json_dump(uploaded_files')
                            /\ store_form' = "registry"
                       ELSE UNCHANGED <<history_file, store_form>>
                    /\ \E fetch \in GetOutcomes :
                          RefreshWith(uploaded_files', remote_files', fetch)
                    /\ delete_call' =
                          [op |-> "bulk", removed |-> gone,
                           acked |-> {files_tree[i].file_name : i \in acks},
                           optin |-> {},
                           failed |-> {files_tree[i].file_name : i \in fails},
                           saved |-> saves]
                    /\ UNCHANGED <<chat_messages, nvars>>

\* clear_upload_history
ClearUploadHistory ==
    /\ UNCHANGED <<saved_user_name, selected_file, check_duplicates, api_key, now,
                   upload_call, registry_type, startup, cvars, kvars, avars>>
    /\ \E answer \in BOOLEAN :
        IF answer
        THEN /\ uploaded_files' = <<>>
             /\ history_file' = json_dump(uploaded_files')
             /\ store_form' = "registry"
             /\ delete_call' = [op |-> "clear",
                                removed |-> {uploaded_files[i].name :
                                                i \in DOMAIN uploaded_files},
                                acked |-> {}, optin |-> {}, failed |-> {},
                                saved |-> TRUE]
             /\ UNCHANGED <<remote_files, files_tree, files_status_label,
                            refresh_call, chat_messages, nvars>>
        ELSE DeleteReturns([NoDelete EXCEPT !.op = "clear"])

----------------------------------------------------------------------------
(* main.py: closing and starting the application *)

\* upload_history.json is overwritten or removed from outside the application
DamageStore ==
    /\ \E form \in StoreForms \ {"registry"} : store_form' = form
    /\ history_file' = <<>>
    /\ UNCHANGED <<uploaded_files, saved_user_name, selected_file,
                   check_duplicates, api_key, now, remote_files, files_tree,
                   files_status_label, refresh_call, upload_call, chat_messages,
                   registry_type, startup, delete_call, nvars, cvars, kvars, avars>>

\* on_closing (or a start after an aborted one), then a new process up to
\* load_file_history: __init__ lines 96 to 108
Restart ==
    /\ startup \in {"up", "aborted"}
    /\ LET l == load_file_history(store_form, history_file)
       IN  /\ uploaded_files' = l.reg
           /\ registry_type' = l.type
    /\ startup' = "setup"
    /\ api_key' = "key"
    /\ selected_file' = NoFile
    /\ check_duplicates' = TRUE
    /\ files_tree' = <<>>
    /\ files_status_label' = "none"
    /\ refresh_call' = [outcome |-> "none", result |-> Ret("None")]
    /\ upload_call' = NoUpload
    /\ delete_call' = NoDelete
    /\ chat_messages' = <<>>
    /\ status_label' = "Status: Ready to connect"
    /\ connection_status' = "Disconnected"
    /\ notification_enabled' = TRUE
    /\ notif_call' = NoCall
    /\ popup_threads' = 0
    /\ popup_shown' = "none"
    /\ keep_alive_running' = FALSE
    /\ keep_alive_thread' = 0
    /\ workers' = <<>>
    /\ after_queue' = <<>>
    /\ probe_log' = <<>>
    /\ applied_log' = <<>>
    /\ ai_keepalive_running' = FALSE
    /\ ai_keepalive_thread' = 0
    /\ ai_workers' = <<>>
    /\ is_connected' = FALSE
    /\ ai_probe' = "none"
    /\ ai_status_label' = "none"
    /\ ui_writer' = "none"
    /\ ai_health_thread' = "none"
    /\ stop_call' = NoStop
    /\ UNCHANGED <<hash_runs, gvars>>
    /\ UNCHANGED <<history_file, store_form, saved_user_name, now, remote_files,
                   plyer_available, notification_loaded, log_window>>

\* the rest of __init__: AIService(), setup_ui (update_history_display in
\* setup_upload_tab, refresh_files in setup_manager_tab, the check_ai_health
\* thread in setup_ai_tab), start_keep_alive. update_history_display calls
\* self.uploaded_files.items(): on anything but a dict the exception leaves
\* __init__ and the process ends
FinishInit ==
    /\ startup = "setup"
    /\ IF registry_type # "dict"
       THEN /\ startup' = "aborted"
            /\ UNCHANGED <<files_tree, files_status_label, refresh_call, kvars,
                           avars>>
       ELSE /\ startup' = "up"
            /\ \E fetch \in GetOutcomes :
                  RefreshWith(uploaded_files, remote_files, fetch)
            /\ keep_alive_running' = TRUE
            /\ workers' = <<"test">>
            /\ keep_alive_thread' = 1
            /\ ai_keepalive_running' = TRUE
            /\ ai_workers' = <<"test">>
            /\ ai_keepalive_thread' = 1
            /\ ai_status_label' = "Checking AI connection..."
            /\ ai_health_thread' = "run"
            /\ UNCHANGED <<after_queue, log_window, probe_log, applied_log,
                           is_connected, ai_probe, ui_writer, svars>>
    /\ UNCHANGED <<uploaded_files, history_file, saved_user_name, selected_file,
                   check_duplicates, api_key, now, remote_files, upload_call,
                   chat_messages, store_form, registry_type, delete_call, nvars,
                   cvars>>

----------------------------------------------------------------------------
(* main.py: the keep-alive worker *)

\* a probe that raised where the worker reads it as a probe that succeeded
keep_alive_status_swapped(outcome) ==
    CASE outcome = "200" -> "Offline"
      [] outcome = "non200" -> "Issues"
      [] OTHER -> "Online"

\* the text keep_alive_worker posts for a probe: 200, another status code, or an
\* exception of requests.get
keep_alive_status(outcome) ==
    CASE outcome = "200" -> "Online"
      [] outcome = "non200" -> "Issues"
      [] OTHER -> "Offline"

\* a log of the first entries, as many as the window has room for
Logged(log, window, x) == IF Len(log) < window THEN Append(log, x) ELSE log

\* the worker with "while self.keep_alive_running" read as "while True"
loop_test_ignoring_flag(running) == "probe"

\* "while self.keep_alive_running": into the loop body, or out of the loop
loop_test(running) == IF running THEN "probe" ELSE "done"

\* the worker whose except clause ends the loop
after_probe_stop_on_error(outcome) == IF outcome = "200" THEN "sleep" ELSE "done"

\* every branch of the loop body ends at time.sleep
after_probe(outcome) == "sleep"

\* start_keep_alive
StartKeepAlive ==
    /\ IF ~keep_alive_running
       THEN /\ keep_alive_running' = TRUE
            /\ workers' = Append(workers, "test")
            /\ keep_alive_thread' = Len(workers')
       ELSE UNCHANGED <<keep_alive_running, workers, keep_alive_thread>>
    /\ UNCHANGED <<after_queue, log_window, probe_log, applied_log, nvars,
                   fvars, cvars, avars>>

\* thread.join() without timeout: on a thread that is alive the call returns
\* only when the thread ends
thread_join_unbounded(alive) == IF alive THEN "until_exit" ELSE "at_once"

\* thread.join(timeout=1): returns at once on a thread that has ended, after
\* one second at the latest on one that is alive; it raises in neither case
thread_join(alive) == IF alive THEN "timeout" ELSE "at_once"

\* "if self.keep_alive_thread: self.keep_alive_thread.join(timeout=1)", on the
\* thread object (0: None) and the positions of the threads started
join_worker(thread, positions) ==
    IF thread = 0 THEN "none" ELSE thread_join(positions[thread] # "done")

\* stop_keep_alive: clear the flag, join the worker for a second at most
StopKeepAlive ==
    /\ keep_alive_running' = FALSE
    /\ stop_call' = [who |-> "stop_keep_alive",
                     join |-> join_worker(keep_alive_thread, workers),
                     result |-> Ret("None")]
    /\ UNCHANGED <<keep_alive_thread, workers, after_queue, log_window, probe_log,
                   applied_log, hash_runs, gvars, nvars, fvars,
                   cvars>>
    /\ UNCHANGED <<ai_keepalive_running, ai_keepalive_thread, ai_workers,
                   is_connected, ai_probe, dvars>>

\* keep_alive_worker at "while self.keep_alive_running"
KeepAliveTest(w) ==
    /\ workers[w] = "test"
    /\ workers' = [workers EXCEPT ![w] = loop_test(keep_alive_running)]
    /\ UNCHANGED <<keep_alive_running, keep_alive_thread, after_queue, log_window,
                   probe_log, applied_log, nvars, fvars, cvars, avars>>

\* keep_alive_worker: requests.get(.../health, timeout=3) ends, the status is
\* posted with root.after(0, ...)
KeepAliveProbe(w) ==
    \E outcome \in GetOutcomes :
        /\ workers[w] = "probe"
        /\ Len(after_queue) < MaxQueue
        /\ after_queue' = Append(after_queue, keep_alive_status(outcome))
        /\ probe_log' = Logged(probe_log, log_window, outcome)
        /\ workers' = [workers EXCEPT ![w] = after_probe(outcome)]
        /\ UNCHANGED <<keep_alive_running, keep_alive_thread, log_window,
                       applied_log, nvars, fvars, cvars, avars>>

\* keep_alive_worker: time.sleep(4) ends
KeepAliveSleep(w) ==
    /\ workers[w] = "sleep"
    /\ workers' = [workers EXCEPT ![w] = "test"]
    /\ UNCHANGED <<keep_alive_running, keep_alive_thread, after_queue, log_window,
                   probe_log, applied_log, nvars, fvars, cvars, avars>>

\* a step of a keep_alive_worker thread
WorkerStep ==
    \E w \in DOMAIN workers : KeepAliveTest(w) \/ KeepAliveProbe(w) \/ KeepAliveSleep(w)

\* the interactive thread runs the oldest posted callback:
\* self.connection_status.config(text=...)
ApplyStatus ==
    /\ Len(after_queue) > 0
    /\ connection_status' = Head(after_queue)
    /\ after_queue' = Tail(after_queue)
    /\ applied_log' = Logged(applied_log, log_window, Head(after_queue))
    /\ ui_writer' = "interactive"
    /\ UNCHANGED <<status_label, keep_alive_running, keep_alive_thread, workers,
                   log_window, probe_log, nvars, fvars>>
    /\ UNCHANGED <<ai_keepalive_running, ai_keepalive_thread, ai_workers,
                   is_connected, ai_probe, ai_status_label, ai_health_thread,
                   svars>>

----------------------------------------------------------------------------
(* ai_service.py: the keep-alive worker *)

\* start_ai_keepalive
StartAiKeepAlive ==
    /\ IF ~ai_keepalive_running
       THEN /\ ai_keepalive_running' = TRUE
            /\ ai_workers' = Append(ai_workers, "test")
            /\ ai_keepalive_thread' = Len(ai_workers')
       ELSE UNCHANGED <<ai_keepalive_running, ai_workers, ai_keepalive_thread>>
    /\ UNCHANGED <<is_connected, ai_probe, hvars, nvars, fvars, cvars, kvars>>

\* stop_ai_keepalive
StopAiKeepAlive ==
    /\ ai_keepalive_running' = FALSE
    /\ stop_call' = [who |-> "stop_ai_keepalive",
                     join |-> join_worker(ai_keepalive_thread, ai_workers),
                     result |-> Ret("None")]
    /\ UNCHANGED <<ai_keepalive_thread, ai_workers, is_connected, ai_probe,
                   dvars, hash_runs, gvars, nvars, fvars, cvars, kvars>>

\* ai_keepalive_worker at "while self.ai_keepalive_running"
AiKeepAliveTest(w) ==
    /\ ai_workers[w] = "test"
    /\ ai_workers' = [ai_workers EXCEPT ![w] = loop_test(ai_keepalive_running)]
    /\ UNCHANGED <<ai_keepalive_running, ai_keepalive_thread, is_connected,
                   ai_probe, hvars, nvars, fvars, cvars, kvars>>

\* ai_keepalive_worker: requests.get(health_endpoint, timeout=5) ends and
\* self.is_connected is set
AiKeepAliveProbe(w) ==
    \E outcome \in GetOutcomes :
        /\ ai_workers[w] = "probe"
        /\ is_connected' = (keep_alive_status(outcome) = "Online")
        /\ ai_probe' = outcome
        /\ ai_workers' = [ai_workers EXCEPT ![w] = after_probe(outcome)]
        /\ UNCHANGED <<ai_keepalive_running, ai_keepalive_thread, hvars,
                       nvars, fvars, cvars, kvars>>

\* ai_keepalive_worker: time.sleep(30) ends
AiKeepAliveSleep(w) ==
    /\ ai_workers[w] = "sleep"
    /\ ai_workers' = [ai_workers EXCEPT ![w] = "test"]
    /\ UNCHANGED <<ai_keepalive_running, ai_keepalive_thread, is_connected,
                   ai_probe, hvars, nvars, fvars, cvars, kvars>>

\* a step of an ai_keepalive_worker thread
AiWorkerStep ==
    \E w \in DOMAIN ai_workers :
        AiKeepAliveTest(w) \/ AiKeepAliveProbe(w) \/ AiKeepAliveSleep(w)

----------------------------------------------------------------------------
(* main.py, ai_service.py: the AI health check *)

\* AIService.check_ai_health followed by the text NovrintechDesktopApp's
\* check_ai_health puts into ai_status_label: every exception of the request
\* is caught in the service and reported as a failed check
check_ai_health(outcome) ==
    [connected |-> outcome = "200",
     text |-> IF outcome = "200" THEN "AI Backend Online"
              ELSE "AI Backend Offline"]

\* check_ai_health run by thread: the request, self.is_connected set in the
\* service, self.ai_status_label.config(...) called in the same thread
RunAiHealthCheck(thread) ==
    /\ \E outcome \in GetOutcomes :
          /\ is_connected' = check_ai_health(outcome).connected
          /\ ai_status_label' = check_ai_health(outcome).text
    /\ ui_writer' = thread
    /\ UNCHANGED <<ai_keepalive_running, ai_keepalive_thread, ai_workers,
                   ai_probe, svars, nvars, fvars, cvars, kvars>>

\* the thread setup_ai_tab starts: threading.Thread(target=self.check_ai_health)
AiHealthThread ==
    /\ ai_health_thread = "run"
    /\ ai_health_thread' = "done"
    /\ RunAiHealthCheck("background")

\* the "Check AI Health" button: check_ai_health as a Tk command
CheckAiHealth ==
    /\ UNCHANGED ai_health_thread
    /\ RunAiHealthCheck("interactive")

----------------------------------------------------------------------------
(* main.py: get_file_hash, with hashlib.md5 as RFC 1321 defines it *)

\* 32-bit words are pairs <<high half, low half>> of 16-bit numbers
Half == 65536

RECURSIVE Pow2(_)
Pow2(n) == IF n = 0 THEN 1 ELSE 2 * Pow2(n - 1)

\* a & b on n-bit numbers
RECURSIVE And16(_, _, _)
And16(a, b, n) ==
    IF n = 0 THEN 0
    ELSE ((a % 2) * (b % 2)) + (2 * And16(a \div 2, b \div 2, n - 1))

\* a ^ b on n-bit numbers
RECURSIVE Xor16(_, _, _)
Xor16(a, b, n) ==
    IF n = 0 THEN 0
    ELSE ((a + b) % 2) + (2 * Xor16(a \div 2, b \div 2, n - 1))

And32(a, b) == <<And16(a[1], b[1], 16), And16(a[2], b[2], 16)>>
Xor32(a, b) == <<Xor16(a[1], b[1], 16), Xor16(a[2], b[2], 16)>>
Not32(a) == <<Half - 1 - a[1], Half - 1 - a[2]>>
\* a | b = ~(~a & ~b)
Or32(a, b) == Not32(And32(Not32(a), Not32(b)))

\* a + b modulo 2^32
Add32(a, b) ==
    LET lo == a[2] + b[2]
    IN  <<(a[1] + b[1] + (lo \div Half)) % Half, lo % Half>>

\* a rotated left by s < 16 bits
RotSmall(a, s) ==
    IF s = 0 THEN a
    ELSE <<((a[1] * Pow2(s)) % Half) + (a[2] \div Pow2(16 - s)),
           ((a[2] * Pow2(s)) % Half) + (a[1] \div Pow2(16 - s))>>

\* a rotated left by s < 32 bits
Rotl32(a, s) == IF s >= 16 THEN RotSmall(<<a[2], a[1]>>, s - 16) ELSE RotSmall(a, s)

\* floor(2^32 * abs(sin(i))) for i = 1..64
K == <<
      <<55146, 42104>>, <<59591, 46934>>, <<9248, 28891>>, <<49597, 52974>>,
      <<62844, 4015>>, <<18311, 50730>>, <<43056, 17939>>, <<64838, 38145>>,
      <<27008, 39128>>, <<35652, 63407>>, <<65535, 23473>>, <<35164, 55230>>,
      <<27536, 4386>>, <<64920, 29075>>, <<42617, 17294>>, <<18868, 2081>>,
      <<63006, 9570>>, <<49216, 45888>>, <<9822, 23121>>, <<59830, 51114>>,
      <<54831, 4189>>, <<580, 5203>>, <<55457, 59009>>, <<59347, 64456>>,
      <<8673, 52710>>, <<49975, 2006>>, <<62677, 3463>>, <<17754, 5357>>,
      <<43491, 59653>>, <<64751, 41976>>, <<26479, 729>>, <<36138, 19594>>,
      <<65530, 14658>>, <<34673, 63105>>, <<28061, 24866>>, <<64997, 14348>>,
      <<42174, 59972>>, <<19422, 53161>>, <<63163, 19296>>, <<48831, 48240>>,
      <<10395, 32454>>, <<60065, 10234>>, <<54511, 12421>>, <<1160, 7429>>,
      <<55764, 53305>>, <<59099, 39397>>, <<8098, 31992>>, <<50348, 22117>>,
      <<62505, 8772>>, <<17194, 65431>>, <<43924, 9127>>, <<64659, 41017>>,
      <<25947, 22979>>, <<36620, 52370>>, <<65519, 62589>>, <<34180, 24017>>,
      <<28584, 32335>>, <<65068, 59104>>, <<41729, 17172>>, <<19976, 4513>>,
      <<63315, 32386>>, <<48442, 62005>>, <<10967, 53947>>, <<60294, 54161>> >>

\* the shift of each round
S == <<
      7, 12, 17, 22, 7, 12, 17, 22, 7, 12, 17, 22, 7, 12, 17, 22,
      5, 9, 14, 20, 5, 9, 14, 20, 5, 9, 14, 20, 5, 9, 14, 20,
      4, 11, 16, 23, 4, 11, 16, 23, 4, 11, 16, 23, 4, 11, 16, 23,
      6, 10, 15, 21, 6, 10, 15, 21, 6, 10, 15, 21, 6, 10, 15, 21 >>

\* a message of at most 55 bytes padded to one block: the bytes, 0x80,
\* zeros, the length in bits as a little-endian 64-bit number
Padded(msg) ==
    [i \in 1..64 |->
        IF i <= Len(msg) THEN msg[i]
        ELSE IF i = Len(msg) + 1 THEN 128
        ELSE IF i = 57 THEN (8 * Len(msg)) % 256
        ELSE IF i = 58 THEN (8 * Len(msg)) \div 256
        ELSE 0]

\* the sixteen little-endian words of a block
Words(block) ==
    [j \in 1..16 |-> <<block[4 * j - 1] + (256 * block[4 * j]),
                       block[4 * j - 3] + (256 * block[4 * j - 2])>>]

\* round i (0..63) on the registers st = <<A, B, C, D>>
Round(st, i, M) ==
    LET A == st[1]  B == st[2]  C == st[3]  D == st[4]
        F == IF i < 16 THEN Or32(And32(B, C), And32(Not32(B), D))
             ELSE IF i < 32 THEN Or32(And32(D, B), And32(Not32(D), C))
             ELSE IF i < 48 THEN Xor32(Xor32(B, C), D)
             ELSE Xor32(C, Or32(B, Not32(D)))
        g == IF i < 16 THEN i
             ELSE IF i < 32 THEN (5 * i + 1) % 16
             ELSE IF i < 48 THEN (3 * i + 5) % 16
             ELSE (7 * i) % 16
        sum == Add32(Add32(Add32(F, A), K[i + 1]), M[g + 1])
    IN  <<D, Add32(B, Rotl32(sum, S[i + 1])), B, C>>

\* rounds i to last - 1 on the registers st
RECURSIVE Rounds(_, _, _, _)
Rounds(st, i, last, M) ==
    IF i = last THEN st
    ELSE LET next == Round(st, i, M)
         IN  IF Len(next) = 4 THEN Rounds(next, i + 1, last, M) ELSE st

\* the 64 rounds on one block, sixteen at a time
AllRounds(st, M) ==
    LET r1 == Rounds(st, 0, 16, M)
    IN  IF Len(r1) # 4 THEN st ELSE
        LET r2 == Rounds(r1, 16, 32, M)
        IN  IF Len(r2) # 4 THEN st ELSE
            LET r3 == Rounds(r2, 32, 48, M)
            IN  IF Len(r3) # 4 THEN st ELSE Rounds(r3, 48, 64, M)

\* 0x67452301, 0xefcdab89, 0x98badcfe, 0x10325476
IV == << <<26437, 8961>>, <<61389, 43913>>, <<39098, 56574>>, <<4146, 21622>> >>

\* the four bytes of a word, lowest first
WordBytes(wd) == <<wd[2] % 256, wd[2] \div 256, wd[1] % 256, wd[1] \div 256>>

\* hashlib.md5 of a message of at most 55 bytes: the 16 bytes of the digest
md5(msg) ==
    LET r == AllRounds(IV, Words(Padded(msg)))
        out == [k \in 1..4 |-> Add32(IV[k], r[k])]
    IN  WordBytes(out[1]) \o WordBytes(out[2]) \o WordBytes(out[3]) \o WordBytes(out[4])

\* hexdigest: two hexadecimal digits (0..15) per byte, the high one first
hexdigest(d) ==
    [i \in 1..(2 * Len(d)) |->
        IF i % 2 = 1 THEN d[(i + 1) \div 2] \div 16 ELSE d[i \div 2] % 16]

\* values a byte of a file takes in the model
ByteValues == {0, 1, 255}

\* the files given to get_file_hash
RECURSIVE FilesOfLen(_)
FilesOfLen(n) ==
    IF n = 0 THEN {<<>>}
    ELSE {Append(f, b) : f \in FilesOfLen(n - 1), b \in ByteValues}

Files == UNION {FilesOfLen(n) : n \in 0..MaxBytes}

\* two files of one length that differ in exactly one byte
DiffersInOneByte(f, g) ==
    /\ Len(f) = Len(g)
    /\ Cardinality({i \in DOMAIN f : f[i] # g[i]}) = 1

\* f.read(size) at position pos: the next size bytes, fewer at the end of the
\* file, none after it
f_read(bytes, pos, size) ==
    SubSeq(bytes, pos + 1, IF pos + size > Len(bytes) THEN Len(bytes) ELSE pos + size)

\* the loop ending at the first read that returns fewer bytes than asked for
read_ends_on_short(chunk, size) == Len(chunk) < size

\* iter(lambda: f.read(4096), b""): the loop ends at the first empty read
read_ends(chunk, size) == chunk = <<>>

\* a get_file_hash call on a file, reading size bytes at a time, before its
\* first read
HashRun(bytes, size) ==
    [bytes |-> bytes, size |-> size, pos |-> 0, fed |-> <<>>, reads |-> 0,
     done |-> FALSE, digest |-> <<>>]

\* get_file_hash: one f.read; the chunk goes to hash_md5.update, or the loop
\* ends and hexdigest is returned
GetFileHashStep ==
    /\ \E k \in DOMAIN hash_runs :
          LET run == hash_runs[k]
              chunk == f_read(run.bytes, run.pos, run.size)
          IN  /\ ~run.done
              /\ hash_runs' = [hash_runs EXCEPT ![k] =
                    IF read_ends(chunk, run.size)
                    THEN [run EXCEPT !.done = TRUE, !.reads = @ + 1,
                                     !.digest = hexdigest(md5(run.fed))]
                    ELSE [run EXCEPT !.fed = @ \o chunk,
                                     !.pos = @ + Len(chunk),
                                     !.reads = @ + 1]]
    /\ UNCHANGED <<stop_call, gvars, nvars, fvars, cvars, kvars>>
    /\ UNCHANGED <<ai_keepalive_running, ai_keepalive_thread, ai_workers,
                   is_connected, ai_probe, dvars>>

----------------------------------------------------------------------------
(* main.py, ai_service.py: the AI chat *)

\* self.max_history_length
max_history_length == 50

\* "if len(self.ai_chat_messages) > 100" in add_ai_message
AiChatLimit == 100

\* a message text: what it is and which message of the user it belongs to
Msg(text, n) == [text |-> text, n |-> n]

\* an entry of either history (the timestamp is left out)
Entry(role, message) == [role |-> role, message |-> message]

\* the last n entries of a list: list[-n:]
LastN(list, n) ==
    IF Len(list) > n THEN SubSeq(list, Len(list) - n + 1, Len(list)) ELSE list

\* add_to_ai_history with the slice taken from the front: list[:50]
add_to_ai_history_keeps_oldest(history, role, message) ==
    LET all == Append(history, Entry(role, message))
    IN  IF Len(all) > max_history_length
        THEN SubSeq(all, 1, max_history_length)
        ELSE all

\* AIService.add_to_ai_history: append, then keep the last max_history_length
add_to_ai_history(history, role, message) ==
    LET all == Append(history, Entry(role, message))
    IN  IF Len(all) > max_history_length
        THEN LastN(all, max_history_length)
        ELSE all

\* add_ai_message: the entry appended to self.ai_chat_messages, the last 100 kept
add_ai_message(messages, role, message) ==
    LET all == Append(messages, Entry(role, message))
    IN  IF Len(all) > AiChatLimit THEN LastN(all, AiChatLimit) ELSE all

\* what requests.post(chat_endpoint) and the decoding of its answer can do:
\* 200 with success and a reply, 200 with success and no "reply" member, 200
\* with success false, 200 with a body that json() or data.get() rejects,
\* another status code, and the exceptions of the request
ChatOutcomes ==
    {"reply", "no_reply", "api_error", "bad_body", "non200", "timeout",
     "connection_error", "request_exception"}

\* response.status_code == 200 and data.get("success")
chat_succeeds(outcome) == outcome \in {"reply", "no_reply"}

\* data.get("reply", "No response received")
chat_reply(outcome, n) ==
    IF outcome = "reply" THEN Msg("reply", n) ELSE Msg("No response received", n)

\* the "error" member of a failed call's result, by its fixed opening words
chat_error(outcome) ==
    CASE outcome = "api_error" -> "AI API Error"
      [] outcome = "non200" -> "HTTP"
      [] outcome = "timeout" -> "Request timed out"
      [] outcome = "connection_error" -> "Cannot connect to AI backend"
      [] OTHER -> "Unexpected error"

\* the dictionary send_message_to_ai returns ("none": member absent)
chat_result(outcome, n) ==
    IF chat_succeeds(outcome)
    THEN [success |-> TRUE, response |-> chat_reply(outcome, n), error |-> "none"]
    ELSE [success |-> FALSE, response |-> Msg("none", n),
          error |-> chat_error(outcome)]

\* a call that puts the user message into the history before the request is
\* made: it stays there when the request fails
history_after_failure_keeps_user(history, n) ==
    add_to_ai_history(history, "user", Msg("question", n))

\* ai_chat_history when send_message_to_ai returns a failure: no statement of
\* the failing branches and of the except clauses writes it
history_after_failure(history, n) == history

NoSend == [called |-> FALSE, n |-> 0, outcome |-> "none",
           result |-> Ret([success |-> FALSE, response |-> Msg("none", 0),
                           error |-> "none"]),
           previous |-> <<>>]

\* the callbacks process_ai_request posts with root.after(0, ...) once
\* send_message_to_ai has returned: the message to display, then the button
ChatCallbacks(outcome, n) ==
    << [op |-> "add_ai_message",
        role |-> IF chat_succeeds(outcome) THEN "assistant" ELSE "system",
        message |-> IF chat_succeeds(outcome) THEN chat_reply(outcome, n)
                    ELSE Msg(chat_error(outcome), n)],
       [op |-> "enable_send", role |-> "none", message |-> Msg("none", n)] >>

\* how send_ai_message can be entered: the Send button, the <Control-Return>
\* binding of the entry, a quick-question button (ask_quick_question)
SendEntries == {"send_button", "control_return", "quick_question"}

\* send_ai_message reached through one entry point; a disabled ttk.Button does
\* not run its command, the binding and ask_quick_question call the method
\* whatever the button's state is
SendAiMessage(entry) ==
    /\ entry = "send_button" => ai_send_button = "normal"
    /\ \E text \in IF entry = "quick_question" THEN {"question"}
                   ELSE {"", "question"} :
          IF text = ""
          THEN UNCHANGED gvars                       \* "if not message: return"
          ELSE /\ ai_serial < MaxSends
               /\ ai_serial' = ai_serial + 1
               /\ ai_chat_messages' = add_ai_message(ai_chat_messages, "user",
                                                     Msg(text, ai_serial'))
               /\ ai_send_button' = "disabled"
               /\ ai_requests' = Append(ai_requests,
                      [n |-> ai_serial', entry |-> entry, pos |-> "request",
                       outcome |-> "none", previous |-> <<>>])
               /\ UNCHANGED <<ai_chat_history, ai_after_queue, send_call>>
    /\ UNCHANGED <<stop_call, hash_runs, dvars, nvars, fvars, cvars, kvars>>
    /\ UNCHANGED <<ai_keepalive_running, ai_keepalive_thread, ai_workers,
                   is_connected, ai_probe>>

\* send_message_to_ai returns to process_ai_request, which posts its callbacks
ChatReturns(r, outcome, previous) ==
    LET n == ai_requests[r].n
    IN  /\ send_call' = [called |-> TRUE, n |-> n, outcome |-> outcome,
                         result |-> Ret(chat_result(outcome, n)),
                         previous |-> previous]
        /\ ai_after_queue' = ai_after_queue \o ChatCallbacks(outcome, n)
        /\ ai_requests' = [ai_requests EXCEPT ![r].pos = "done",
                                              ![r].outcome = outcome,
                                              ![r].previous = <<>>]

\* process_ai_request, in send_message_to_ai: requests.post ends. A failure is
\* returned; on a success the user message is added to the history
RequestAnswered(r) ==
    /\ ai_requests[r].pos = "request"
    /\ \E outcome \in ChatOutcomes :
          IF chat_succeeds(outcome)
          THEN /\ ai_chat_history' = add_to_ai_history(ai_chat_history, "user",
                                         Msg("question", ai_requests[r].n))
               /\ ai_requests' = [ai_requests EXCEPT ![r].pos = "reply",
                                      ![r].outcome = outcome,
                                      ![r].previous = ai_chat_history]
               /\ UNCHANGED <<ai_after_queue, send_call>>
          ELSE /\ ai_chat_history' =
                      history_after_failure(ai_chat_history, ai_requests[r].n)
               /\ ChatReturns(r, outcome, ai_chat_history)
    /\ UNCHANGED <<ai_chat_messages, ai_send_button, ai_serial>>

\* process_ai_request, in send_message_to_ai: the reply is added to the
\* history and the result is returned
ReplyRecorded(r) ==
    /\ ai_requests[r].pos = "reply"
    /\ ai_chat_history' = add_to_ai_history(ai_chat_history, "assistant",
                              chat_reply(ai_requests[r].outcome, ai_requests[r].n))
    /\ ChatReturns(r, ai_requests[r].outcome, ai_requests[r].previous)
    /\ UNCHANGED <<ai_chat_messages, ai_send_button, ai_serial>>

\* a step of a process_ai_request thread
ProcessAiRequest ==
    /\ \E r \in DOMAIN ai_requests : RequestAnswered(r) \/ ReplyRecorded(r)
    /\ UNCHANGED <<stop_call, hash_runs, dvars, nvars, fvars, cvars, kvars>>
    /\ UNCHANGED <<ai_keepalive_running, ai_keepalive_thread, ai_workers,
                   is_connected, ai_probe>>

\* the interactive thread runs the oldest callback of process_ai_request
ApplyAiCallback ==
    /\ Len(ai_after_queue) > 0
    /\ LET cb == Head(ai_after_queue)
       IN  IF cb.op = "add_ai_message"
           THEN /\ ai_chat_messages' =
                       add_ai_message(ai_chat_messages, cb.role, cb.message)
                /\ UNCHANGED ai_send_button
           ELSE /\ ai_send_button' = "normal"
                /\ UNCHANGED ai_chat_messages
    /\ ai_after_queue' = Tail(ai_after_queue)
    /\ UNCHANGED <<ai_chat_history, ai_requests, ai_serial, send_call>>
    /\ UNCHANGED <<stop_call, hash_runs, dvars, nvars, fvars, cvars, kvars>>
    /\ UNCHANGED <<ai_keepalive_running, ai_keepalive_thread, ai_workers,
                   is_connected, ai_probe>>

\* clear_ai_chat: both histories emptied, the welcome message shown again
ClearAiChat ==
    /\ ai_chat_history' = <<>>
    /\ ai_chat_messages' = add_ai_message(<<>>, "assistant", Msg("welcome", 0))
    /\ UNCHANGED <<ai_send_button, ai_requests, ai_after_queue, ai_serial,
                   send_call>>
    /\ UNCHANGED <<stop_call, hash_runs, dvars, nvars, fvars, cvars, kvars>>
    /\ UNCHANGED <<ai_keepalive_running, ai_keepalive_thread, ai_workers,
                   is_connected, ai_probe>>

\* AIService.add_to_ai_history called directly, as test_ai_integration.py
\* does: a user message, then an assistant message, and so on
AddToAiHistory ==
    /\ ai_serial < MaxAiAdds
    /\ ai_serial' = ai_serial + 1
    /\ ai_chat_history' = add_to_ai_history(ai_chat_history,
           IF ai_serial' % 2 = 1 THEN "user" ELSE "assistant",
           Msg("Test message", ai_serial'))
    /\ UNCHANGED <<ai_chat_messages, ai_send_button, ai_requests, ai_after_queue,
                   send_call>>
    /\ UNCHANGED <<stop_call, hash_runs, dvars, nvars, fvars, cvars, kvars>>
    /\ UNCHANGED <<ai_keepalive_running, ai_keepalive_thread, ai_workers,
                   is_connected, ai_probe>>

\* NovrintechDesktopApp.add_chat_message called with a system message, named
\* by its timestamp
AddChatMessage ==
    /\ now < MaxChatAdds
    /\ now' = now + 1
    /\ chat_messages' = add_chat_message(chat_messages,
           [type |-> "system", title |-> now', user |-> "Unknown"])
    /\ UNCHANGED <<uploaded_files, history_file, saved_user_name, selected_file,
                   check_duplicates, api_key, remote_files, files_tree,
                   files_status_label, refresh_call, upload_call, store_form,
                   registry_type, startup, delete_call>>
    /\ UNCHANGED <<nvars, cvars, kvars, avars>>

\* the AI tab as setup_ai_tab and initialize_ai_chat leave it
InitChat ==
    /\ ai_chat_history = <<>>
    /\ ai_chat_messages = <<Entry("assistant", Msg("welcome", 0))>>
    /\ ai_send_button = "normal"
    /\ ai_requests = <<>>
    /\ ai_after_queue = <<>>
    /\ ai_serial = 0
    /\ send_call = NoSend

----------------------------------------------------------------------------

InitNotify ==
    /\ plyer_available \in BOOLEAN      \* setup_notification_system: import plyer
    /\ notification_enabled = TRUE
    /\ notification_loaded \in BOOLEAN  \* setup_notifications: import notification_system
    /\ notif_call = NoCall
    /\ popup_threads = 0
    /\ popup_shown = "none"

\* a first start: no upload history, an empty store; setup_files_tab has
\* called refresh_files once
InitFiles ==
    /\ uploaded_files = <<>>
    /\ history_file = <<>>
    /\ saved_user_name = ""
    /\ selected_file = NoFile
    /\ check_duplicates = TRUE
    /\ api_key = "key"
    /\ now = 0
    /\ remote_files = <<>>
    /\ \E outcome \in GetOutcomes :
          LET r == refresh_files("key", <<>>, <<>>, <<>>, outcome)
          IN  /\ files_tree = r.tree
              /\ files_status_label = r.status
              /\ refresh_call = [outcome |-> outcome, result |-> Ret("None")]
    /\ upload_call = NoUpload
    /\ chat_messages = <<>>
    /\ store_form = "missing"
    /\ registry_type = "dict"
    /\ startup = "up"
    /\ delete_call = NoDelete
    /\ status_label = "Status: Ready to connect"
    /\ connection_status = "Disconnected"

\* __init__ has called start_keep_alive, AIService.__init__ start_ai_keepalive:
\* each worker is at the top of its loop
InitKeepAlive(window) ==
    /\ keep_alive_running = TRUE
    /\ keep_alive_thread = 1
    /\ workers = <<"test">>
    /\ after_queue = <<>>
    /\ log_window = window
    /\ probe_log = <<>>
    /\ applied_log = <<>>
    /\ ai_keepalive_running = TRUE
    /\ ai_keepalive_thread = 1
    /\ ai_workers = <<"test">>
    /\ is_connected = FALSE
    /\ ai_probe = "none"
    /\ ai_status_label = "Checking AI connection..."
    /\ ui_writer = "none"
    /\ ai_health_thread = "run"
    /\ stop_call = NoStop

Init == InitNotify /\ InitFiles /\ InitKeepAlive(0) /\ hash_runs = <<>> /\ InitChat

\* a first start on which the import of notification_system failed (the
\* application's show_notification falls back to the console) and the server
\* answered the first refresh_files
InitUpload ==
    /\ Init
    /\ ~plyer_available /\ ~notification_loaded
    /\ refresh_call.outcome = "200"

NextNotify ==
    \/ ShowNotification
    \/ PopupThreadRun
    \/ TestNotification
    \/ ToggleNotifications

NotifySpec == Init /\ [][NextNotify]_vars

\* user names upload_file accepts
ValidUsers == {u \in UserEntries : NameLen(u) >= 2}

\* the registries that n successful uploads or fewer can have left in
\* upload_history.json
RECURSIVE HistoriesAfter(_)
HistoriesAfter(n) ==
    IF n = 0 THEN {<<>>}
    ELSE LET prev == HistoriesAfter(n - 1)
         IN  prev \cup {UpsertRecord(reg, f, n, get_file_hash(c), n, u) :
                            reg \in prev, f \in FileNames, c \in Contents,
                            u \in ValidUsers}

\* what the store lists when it holds the first upload of every record
StoreOf(reg) ==
    [i \in DOMAIN reg |->
        [file_id |-> reg[i].file_id, file_name |-> reg[i].upload_filename,
         created_at |-> reg[i].first_upload]]

\* a start with an upload history of earlier runs: load_file_history has read
\* it, setup_files_tab has called refresh_files once
InitView ==
    /\ InitNotify
    /\ ~plyer_available /\ notification_loaded
    /\ uploaded_files \in HistoriesAfter(MaxLoaded)
    /\ history_file = json_dump(uploaded_files)
    /\ store_form = "registry"
    /\ registry_type = "dict"
    /\ startup = "up"
    /\ delete_call = NoDelete
    /\ saved_user_name \in ValidUsers
    /\ selected_file = NoFile
    /\ check_duplicates = TRUE
    /\ api_key = "key"
    /\ now = MaxLoaded
    /\ remote_files \in {<<>>, StoreOf(uploaded_files)}
    /\ \E outcome \in {"200"} :      \* the server answered at start
          LET r == refresh_files("key", uploaded_files, remote_files, <<>>, outcome)
          IN  /\ files_tree = r.tree
              /\ files_status_label = r.status
              /\ refresh_call = [outcome |-> outcome, result |-> Ret("None")]
    /\ upload_call = NoUpload
    /\ chat_messages = <<>>
    /\ status_label = "Status: Ready to connect"
    /\ connection_status = "Disconnected"
    /\ InitKeepAlive(0)
    /\ hash_runs = <<>> /\ InitChat

\* the file list
NextView ==
    \/ RefreshFiles
    \/ TestConnection

ViewSpec == InitView /\ [][NextView]_vars

\* the application is constructed
Running == startup = "up"

\* a start on a store that holds nothing, or one record written without
\* file_id by another client
InitRegistry ==
    /\ InitNotify
    /\ ~plyer_available /\ ~notification_loaded
    /\ uploaded_files \in {<<>>, <<LegacyRecord("c.txt")>>}
    /\ history_file = json_dump(uploaded_files)
    /\ store_form = "registry"
    /\ registry_type = "dict"
    /\ startup = "up"
    /\ delete_call = NoDelete
    /\ saved_user_name = ""
    /\ selected_file = NoFile
    /\ check_duplicates = TRUE
    /\ api_key = "key"
    /\ now = 0
    /\ remote_files = <<>>
    /\ LET r == refresh_files("key", uploaded_files, remote_files, <<>>, "200")
       IN  /\ files_tree = r.tree
           /\ files_status_label = r.status
           /\ refresh_call = [outcome |-> "200", result |-> Ret("None")]
    /\ upload_call = NoUpload
    /\ chat_messages = <<>>
    /\ status_label = "Status: Ready to connect"
    /\ connection_status = "Disconnected"
    /\ InitKeepAlive(0)
    /\ hash_runs = <<>> /\ InitChat

\* the operations that change the registry: confirmed uploads of one file,
\* and the handlers of the file list
NextRegistry ==
    \/ Running /\ BrowseFile /\ selected_file' = "b.txt"
    \/ Running /\ UploadFile /\ now' = now + 1
    \/ Running /\ RefreshFiles
    \/ Running /\ DeleteFile
    \/ Running /\ BulkDeleteFiles
    \/ Running /\ ClearUploadHistory

RegistrySpec == InitRegistry /\ [][NextRegistry]_vars

\* uploads, and the application closed and started again on what they saved
NextReload ==
    \/ Running /\ BrowseFile
    \/ Running /\ UploadFile
    \/ Restart
    \/ FinishInit

ReloadSpec == InitRegistry /\ [][NextReload]_vars

\* starts of the application on whatever the store has become
NextStart ==
    \/ DamageStore
    \/ Restart
    \/ FinishInit

StartSpec == InitView /\ [][NextStart]_vars

\* the status displays: the keep-alive worker and the callbacks it posts, the
\* connection test, the AI health check of the start and of the button
NextMonitor ==
    \/ WorkerStep
    \/ ApplyStatus
    \/ TestConnection
    \/ AiHealthThread
    \/ CheckAiHealth

\* the keep-alive workers from the start of the application to its close
NextHealth ==
    \/ WorkerStep
    \/ ApplyStatus
    \/ StopKeepAlive
    \/ AiWorkerStep
    \/ StopAiKeepAlive

\* a first start, the first MaxProbes probes followed in the logs
InitHealth ==
    /\ InitNotify
    /\ ~plyer_available /\ ~notification_loaded
    /\ InitFiles
    /\ refresh_call.outcome = "200"
    /\ InitKeepAlive(MaxProbes)
    /\ hash_runs = <<>> /\ InitChat

HealthSpec == InitHealth /\ [][NextHealth]_vars

MonitorSpec == InitHealth /\ [][NextMonitor]_vars

\* the threads are scheduled, requests and sleeps end (timeouts), and the Tk
\* main loop runs the callbacks posted to it
FairHealthSpec ==
    /\ InitUpload
    /\ [][NextHealth]_vars
    /\ WF_vars(WorkerStep)
    /\ WF_vars(ApplyStatus)
    /\ WF_vars(AiWorkerStep)

\* two get_file_hash calls, on one file or on two files that differ in one
\* byte, each reading with a chunk size of its own
InitHash ==
    /\ InitNotify
    /\ ~plyer_available /\ ~notification_loaded
    /\ InitFiles
    /\ refresh_call.outcome = "200"
    /\ InitKeepAlive(0)
    /\ \E f \in Files, g \in Files, m \in 1..MaxChunk, n \in 1..MaxChunk :
          /\ f = g \/ DiffersInOneByte(f, g)
          /\ hash_runs = <<HashRun(f, m), HashRun(g, n)>>
    /\ InitChat

HashSpec == InitHash /\ [][GetFileHashStep]_vars

\* the keep-alive methods called in any order beside the worker threads
NextLifecycle ==
    \/ (keep_alive_running \/ Len(workers) < MaxWorkers) /\ StartKeepAlive
    \/ StopKeepAlive
    \/ WorkerStep
    \/ ApplyStatus
    \/ (ai_keepalive_running \/ Len(ai_workers) < MaxWorkers) /\ StartAiKeepAlive
    \/ StopAiKeepAlive
    \/ AiWorkerStep

InitLifecycle ==
    /\ InitNotify
    /\ ~plyer_available /\ ~notification_loaded
    /\ InitFiles
    /\ refresh_call.outcome = "200"
    /\ InitKeepAlive(0)
    /\ hash_runs = <<>> /\ InitChat

LifecycleSpec == InitLifecycle /\ [][NextLifecycle]_vars

\* the AI chat: the three ways into send_ai_message, the request threads, the
\* callbacks they post, the Clear button
NextChat ==
    \/ \E entry \in SendEntries : SendAiMessage(entry)
    \/ ProcessAiRequest
    \/ ApplyAiCallback
    \/ ClearAiChat

ChatSpec == InitLifecycle /\ [][NextChat]_vars

\* the two history methods called any number of times
NextHistory ==
    \/ AddToAiHistory
    \/ AddChatMessage

\* the request threads are scheduled and every request ends (timeout=30), the
\* Tk main loop runs the callbacks posted to it
FairChatSpec ==
    /\ InitLifecycle
    /\ [][NextChat]_vars
    /\ WF_vars(ProcessAiRequest)
    /\ WF_vars(ApplyAiCallback)

HistorySpec == InitLifecycle /\ [][NextHistory]_vars

\* the upload path
Next ==
    \/ BrowseFile
    \/ ToggleCheckDuplicates
    \/ UploadFile

Spec == InitUpload /\ [][Next]_vars

----------------------------------------------------------------------------
(* Claims *)

\* a direct call of EXESafeNotifications.show_notification has been made
DirectCall == notif_call.called /\ ~notif_call.wrapper

\* C1: show_notification never raises to its caller, whatever the native tier
\* (unavailable, or raising) and the popup tier (raising) do: every call that has
\* been made returned a value.
C1_NeverRaises ==
    notif_call.called => notif_call.result.kind = "return"

\* C1 witness: a call in which plyer raised and the popup thread could not be
\* started has returned
C1_Witness ==
    /\ DirectCall
    /\ notif_call.attempted = <<"native", "popup", "console">>
    /\ notif_call.p = "raise" /\ notif_call.t = "raise"
    /\ notif_call.result.kind = "return"

\* C2 (as claimed): when the native tier and the popup tier both fail, the message
\* goes to the console tier and the value returned reports success.
C2_ConsoleReportsSuccess ==
    (/\ DirectCall
     /\ ~notif_call.native /\ ~notif_call.popup
     /\ notif_call.t = "raise")
        => /\ notif_call.console
           /\ notif_call.result = Ret(TRUE)

\* the value show_notification returns after a native delivery
NativeDeliveryValue == show_notification(TRUE, "ok", "ok").result.value

UploadAttempted == upload_call.file # NoFile

\* the request was sent in the last upload_file call
Posted == \E i \in DOMAIN upload_call.events : upload_call.events[i].ev = "post"

\* a warning naming n was raised, and before the request if one was sent
WarnedBefore(n) ==
    \E j \in DOMAIN upload_call.events :
        /\ upload_call.events[j] = Ev("warn", n)
        /\ \A m \in DOMAIN upload_call.events :
              upload_call.events[m].ev = "post" => j < m

\* the warning naming n was answered yes, before the request if one was sent
ConfirmedBefore(n) ==
    \E j \in DOMAIN upload_call.events :
        /\ upload_call.events[j] = Ev("warn", n)
        /\ j + 1 \in DOMAIN upload_call.events
        /\ upload_call.events[j + 1] = Ev("answer", TRUE)
        /\ \A m \in DOMAIN upload_call.events :
              upload_call.events[m].ev = "post" => j + 1 < m

\* the user answered no to a warning of the last upload_file call
Declined ==
    \E j \in DOMAIN upload_call.events : upload_call.events[j] = Ev("answer", FALSE)

\* the names under which the digest of the file of the last upload_file call is
\* recorded, other than the file's own name (upload_file touches no such record)
RecordedElsewhere ==
    {uploaded_files[i].name : i \in
        {j \in DOMAIN uploaded_files :
            /\ uploaded_files[j].name # upload_call.file
            /\ uploaded_files[j].hash = upload_call.digest}}

\* what C8 says of the last upload_file call
WarnedFirst ==
    /\ Posted => \A n \in RecordedElsewhere : WarnedBefore(n)
    /\ \E n \in RecordedElsewhere : WarnedBefore(n)

\* C8 (as claimed): when a file whose digest is recorded under another display
\* name is uploaded, a duplicate warning naming that record is raised before any
\* bytes are transmitted.
C8_WarningBeforeTransmit ==
    (UploadAttempted /\ RecordedElsewhere # {}) => WarnedFirst

\* C8 (amended): the same, provided the "Check for duplicates before upload"
\* option was on when the upload was started.
C8_WarningWhenChecking ==
    (UploadAttempted /\ upload_call.checked /\ RecordedElsewhere # {}) => WarnedFirst

\* C8 witness: b.txt, whose digest is recorded under a.txt, was uploaded after
\* the warning naming a.txt
C8_Witness ==
    /\ upload_call.file = "b.txt" /\ upload_call.checked
    /\ "a.txt" \in RecordedElsewhere
    /\ Posted /\ WarnedBefore("a.txt")

\* what C9 says of the last upload_file call: sent only after every warning was
\* confirmed, not sent after a declined warning, sent when all were confirmed
OnlyOnConfirmation ==
    /\ Posted => \A n \in RecordedElsewhere : ConfirmedBefore(n)
    /\ Declined => ~Posted
    /\ ~Declined => Posted

\* a declined warning leaves the registry as it was, in memory and on disk
DeclinedKeepsRegistry ==
    Declined' => /\ uploaded_files' = uploaded_files
                 /\ history_file' = history_file

\* C9 (as claimed): an upload whose content matches a record under another
\* display name proceeds only on explicit confirmation; declined, no request is
\* sent and the registry is unchanged; confirmed, the upload is transmitted.
C9_OnlyOnConfirmation ==
    /\ []((UploadAttempted /\ RecordedElsewhere # {}) => OnlyOnConfirmation)
    /\ [][DeclinedKeepsRegistry]_vars

\* C9 (amended): the same, provided the "Check for duplicates before upload"
\* option was on when the upload was started.
C9_ConfirmationWhenChecking ==
    /\ []((UploadAttempted /\ upload_call.checked /\ RecordedElsewhere # {})
            => OnlyOnConfirmation)
    /\ [][DeclinedKeepsRegistry]_vars

\* C9 witness: the user declined the warning for a file recorded under another
\* name, and nothing was sent
C9_Witness ==
    /\ UploadAttempted /\ upload_call.checked /\ RecordedElsewhere # {}
    /\ Declined /\ ~Posted

\* the step is a successful upload_file
UploadSucceeds == now' = now + 1

\* C10: a successful upload of a digest under the display name that already
\* records it adds one to that record's count and sets its last-upload time to
\* the time of this upload; no record is added and no other record changes.
C10_RepeatUploadIncrements ==
    [][(/\ UploadSucceeds
        /\ HasName(uploaded_files, upload_call'.file)
        /\ uploaded_files[IndexOf(uploaded_files, upload_call'.file)].hash
              = upload_call'.digest)
        => LET i == IndexOf(uploaded_files, upload_call'.file)
           IN  /\ Len(uploaded_files') = Len(uploaded_files)
               /\ uploaded_files'[i].name = uploaded_files[i].name
               /\ uploaded_files'[i].count = uploaded_files[i].count + 1
               /\ uploaded_files'[i].last_upload = now'
               /\ uploaded_files'[i].last_upload > uploaded_files[i].last_upload
               /\ uploaded_files'[i].first_upload = uploaded_files[i].first_upload
               /\ \A j \in DOMAIN uploaded_files :
                     j # i => uploaded_files'[j] = uploaded_files[j]
               /\ history_file' = json_dump(uploaded_files')
      ]_vars

\* C10 witness: a.txt was uploaded again with the digest its record holds, and
\* the upload succeeded
C10_Witness ==
    /\ upload_call.file = "a.txt"
    /\ upload_call.events[Len(upload_call.events)] = Ev("response", "200")
    /\ \E i \in DOMAIN uploaded_files :
          /\ uploaded_files[i].name = "a.txt"
          /\ uploaded_files[i].hash = upload_call.digest
          /\ uploaded_files[i].count = 2

\* ---- the file list ----

\* the status texts that flag the list as offline / local only
OfflineTexts ==
    {"Using local history (server list unavailable)",
     "Using local history (connection error)"}

\* the fetch of the last refresh_files call failed
FetchFailed == refresh_call.outcome \in {"non200", "request_exception"}

\* C4 (as claimed): whenever the listing fetch of refresh_files fails, the list
\* shown afterwards has one row per record of uploaded_files, the status still
\* carries the offline / local-only flag when the call returns (also with an
\* empty registry), and no exception escapes.
C4_DegradeToLocal ==
    FetchFailed =>
        /\ files_tree = LocalRows(uploaded_files)
        /\ files_status_label \in OfflineTexts
        /\ refresh_call.result.kind = "return"

----------------------------------------------------------------------------
(* Claims on the keep-alive workers: C5 under HealthSpec, C6 and C7 under
   FairHealthSpec *)

C6_FailedProbeKeepsLoop ==
    /\ [](workers[1] = "done" => ~keep_alive_running)
    /\ [](ai_workers[1] = "done" => ~ai_keepalive_running)
    /\ (workers[1] = "probe") ~> (workers[1] = "sleep")
    /\ (workers[1] = "sleep") ~> (workers[1] = "probe" \/ ~keep_alive_running)
    /\ (ai_workers[1] = "probe") ~> (ai_workers[1] = "sleep")
    /\ (ai_workers[1] = "sleep") ~>
           (ai_workers[1] = "probe" \/ ~ai_keepalive_running)

\* "Offline" of a probe that raised is shown, "Issues" of a later probe is
\* posted, and the worker is probing again; so is the AI service's worker
\* after a probe that raised
C6_Witness ==
    /\ keep_alive_running /\ ai_keepalive_running
    /\ connection_status = "Offline"
    /\ after_queue = <<"Issues">>
    /\ workers[1] = "probe"
    /\ ai_probe = "request_exception"
    /\ ai_workers[1] = "probe"

\* a worker starts a probe only from the loop test, with the flag set
ProbeOnlyWhileRunning ==
    /\ (workers[1] # "probe" /\ workers'[1] = "probe") =>
           (workers[1] = "test" /\ keep_alive_running)
    /\ (ai_workers[1] # "probe" /\ ai_workers'[1] = "probe") =>
           (ai_workers[1] = "test" /\ ai_keepalive_running)

\* a worker that has left its loop stays out of it
DoneIsFinal ==
    /\ workers[1] = "done" => workers'[1] = "done"
    /\ ai_workers[1] = "done" => ai_workers'[1] = "done"

\* C7: once stop has cleared the flag, wherever the worker is, the worker
\* leaves its loop; it starts no probe except from a loop test that found the
\* flag set, and none after it has left the loop.
C7_StopEndsWorker ==
    /\ (~keep_alive_running) ~> (workers[1] = "done")
    /\ (~ai_keepalive_running) ~> (ai_workers[1] = "done")
    /\ [][ProbeOnlyWhileRunning]_vars
    /\ [][DoneIsFinal]_vars

\* both workers have left their loops: one stopped after a probe whose status
\* is shown, the other before its first probe
C7_Witness ==
    /\ ~keep_alive_running /\ workers[1] = "done"
    /\ connection_status = "Online"
    /\ ~ai_keepalive_running /\ ai_workers[1] = "done"
    /\ ai_probe = "none"

\* what a start of the application would read from upload_history.json
Persisted == load_file_history(store_form, history_file)

Reloads == startup = "up" /\ startup' = "setup"

\* C12: the registry a start reads back from upload_history.json, after any
\* number of upserts each followed by save_file_history, is the registry the
\* closed application had: the same records, field for field, in the same
\* order
C12_ReloadRoundTrip ==
    [][Reloads => (uploaded_files' = uploaded_files /\ registry_type' = "dict")]_vars

\* a start has read back a registry of several records, one of them uploaded
\* more than once or written by another client
C12_Witness ==
    /\ startup = "setup"
    /\ Len(uploaded_files) >= 2
    /\ \E i \in DOMAIN uploaded_files :
          uploaded_files[i].count > 1 \/ uploaded_files[i].file_id = NoId

\* C13: a start on a store that is missing or does not hold a registry begins
\* with an empty registry and goes on: no exception leaves __init__, the
\* application never ends because of what upload_history.json holds
C13_LoadFailsSoft ==
    [][/\ (startup' = "setup" /\ startup # "setup" /\ store_form # "registry") =>
             (uploaded_files' = <<>> /\ registry_type' = "dict")
       /\ startup' # "aborted"]_vars

\* the last thing the upload_file call did was to get this response
Answered(call, outcomes) ==
    /\ Len(call.events) > 0
    /\ call.events[Len(call.events)].ev = "response"
    /\ call.events[Len(call.events)].arg \in outcomes

\* C14: upload_file creates or updates a record only when the server has
\* confirmed the upload (status 200); a timeout, a connection error or another
\* status leaves the registry in memory and upload_history.json as they were
C14_OnlyConfirmedUploadRecorded ==
    [][\/ Answered(upload_call', {"200"})
       \/ UNCHANGED <<uploaded_files, history_file, store_form>>]_vars

\* an upload that failed at the server, made with a record in the registry
C14_Witness ==
    /\ Answered(upload_call, UploadOutcomes \ {"200"})
    /\ Len(uploaded_files) > 0
    /\ history_file = json_dump(uploaded_files)

\* the names of the list for which the last handler had the server's
\* acknowledgement of the deletion, or the user's yes to "Remove from local
\* history instead?"
Released(call) == call.acked \cup call.optin

\* C15: a record leaves the registry only after the server acknowledged the
\* deletion of that file, or after the user opted in to the local-only removal
\* of a record whose remote id is unknown; no other operation removes a record
C15_RemovedOnlyOnAckOrOptIn ==
    [][\A i \in DOMAIN uploaded_files :
          ~HasName(uploaded_files', uploaded_files[i].name) =>
              PlainName(uploaded_files[i].name) \in Released(delete_call')]_vars

\* what a row of files_tree shows of the uploader: the list has the columns
\* file_id, filename, type, size, upload_date and no uploader column, so the
\* only trace of the uploader is the prefix the server's name carries
RowUploader(row) == row.file_name[1]

\* the uploader of the local record whose name is the row's name without the
\* uploader prefix, "Unknown" when there is no such record
RecordUploader(reg, row) ==
    IF HasName(reg, row.file_name[2])
    THEN reg[IndexOf(reg, row.file_name[2])].uploaded_by
    ELSE "Unknown"

\* C16: when refresh_files has fetched the server's list, every entry of the
\* list is shown with the uploader of the local record that its name, the
\* uploader prefix stripped, matches, and with "Unknown" when no record matches
C16_RemoteEntriesReconciled ==
    [][(RefreshFiles /\ refresh_call'.outcome = "200") =>
          \A i \in DOMAIN files_tree' :
              RowUploader(files_tree'[i]) =
                  RecordUploader(uploaded_files', files_tree'[i])]_vars

\* what the window shows: the file list, the status texts, the chat
UiState ==
    <<files_tree, files_status_label, status_label, connection_status,
      ai_status_label, chat_messages>>

\* a step of code that runs in a thread other than Tk's
BackgroundStep == WorkerStep \/ AiWorkerStep \/ AiHealthThread

\* C17: code that runs in a background thread changes neither the registry nor
\* anything the window shows; what it has to show it posts with root.after
C17_ThreadsOnlyPost ==
    [][BackgroundStep => UNCHANGED <<uploaded_files, history_file, UiState>>]_vars

\* C18: the health status has one writer, the health monitor: the text of
\* connection_status changes only when a status the keep-alive worker posted is
\* applied, is_connected only in a probe of the AI service's worker or in the
\* health check of the start; no handler of a button writes either of them
C18_OnlyMonitorWritesHealth ==
    [][/\ connection_status' # connection_status => ApplyStatus
       /\ is_connected' # is_connected => (AiWorkerStep \/ AiHealthThread)]_vars

\* every probe so far is in probe_log, and there has been one
ProbesFollowed == probe_log # <<>> /\ Len(probe_log) < log_window

\* C19: the statuses one keep-alive worker posted are applied in the order of
\* its probes, and once every posted status has been applied connection_status
\* shows the outcome of the worker's most recent probe
C19_DisplayedIsLastProbe ==
    /\ Len(applied_log) <= Len(probe_log)
    /\ \A i \in DOMAIN applied_log :
          applied_log[i] = keep_alive_status(probe_log[i])
    /\ (ProbesFollowed /\ after_queue = <<>>) =>
          connection_status = keep_alive_status(probe_log[Len(probe_log)])

\* C20: a probe answered with a status other than 200 shows "Offline", as a
\* probe that raised does; no answer of the health endpoint that is not a
\* success is shown as anything else
C20_NonSuccessIsOffline ==
    \A i \in DOMAIN applied_log :
        probe_log[i] # "200" => applied_log[i] = "Offline"

\* how long a stop call may wait for the worker: not at all, or one join timeout
BoundedJoins == {"none", "at_once", "timeout"}

\* C21: stop_keep_alive and stop_ai_keepalive raise nothing and wait for the
\* worker one join timeout at most; a call made when the monitor is already
\* stopped, the worker still in its loop or gone, leaves the monitor as the
\* first call left it
C21_StopIdempotent ==
    [][/\ (StopKeepAlive \/ StopAiKeepAlive) =>
             (stop_call'.result = Ret("None") /\ stop_call'.join \in BoundedJoins)
       /\ StopKeepAlive => ~keep_alive_running'
       /\ StopAiKeepAlive => ~ai_keepalive_running'
       /\ (StopKeepAlive /\ ~keep_alive_running) =>
             UNCHANGED <<keep_alive_running, keep_alive_thread, workers,
                         after_queue, connection_status>>
       /\ (StopAiKeepAlive /\ ~ai_keepalive_running) =>
             UNCHANGED <<ai_keepalive_running, ai_keepalive_thread, ai_workers,
                         is_connected>>]_vars

\* stop_keep_alive called again after the worker has left its loop: the join
\* returned at once
C21_Witness ==
    /\ stop_call.who = "stop_keep_alive"
    /\ stop_call.join = "at_once"
    /\ workers[1] = "done"
    /\ ~keep_alive_running

\* a popup thread ends with an exception of Tk() or messagebox.showinfo
PopupFails == popup_threads' < popup_threads /\ popup_shown' = "failed"

\* C22: a failure of the popup tier, the one inside the popup's own thread
\* included, is caught and followed by the log tier: the step in which the
\* popup fails delivers the message as a console line
C22_PopupFailureFallsToLog ==
    [][PopupFails => (notif_call' # notif_call /\ notif_call'.console)]_vars

\* the orders in which one call can go through the tiers
TierOrders ==
    {<<"native">>, <<"native", "popup">>, <<"native", "popup", "console">>,
     <<"popup">>, <<"popup", "console">>}

\* the tiers that took the message in a call, as the call saw it: plyer
\* displayed it, the popup thread was started, the console line was printed
DeliveredBy(call) ==
    {tier \in {"native", "popup", "console"} :
        \/ tier = "native" /\ call.native
        \/ tier = "popup" /\ call.popup
        \/ tier = "console" /\ call.console}

\* the tier was attempted in the call
Attempted(call, tier) == \E i \in DOMAIN call.attempted : call.attempted[i] = tier

C24_DigestFollowsContent ==
    \A i \in DOMAIN hash_runs, j \in DOMAIN hash_runs :
        (hash_runs[i].done /\ hash_runs[j].done) =>
            /\ hash_runs[i].bytes = hash_runs[j].bytes =>
                   hash_runs[i].digest = hash_runs[j].digest
            /\ DiffersInOneByte(hash_runs[i].bytes, hash_runs[j].bytes) =>
                   hash_runs[i].digest # hash_runs[j].digest

\* the bytes 00 01 read one at a time and the bytes 00 ff read in one chunk:
\* both calls have returned, the second one with the digest d07d34efac6328007ad67c7e0a985e00
C24_Witness ==
    /\ Len(hash_runs) = 2
    /\ hash_runs[1].done /\ hash_runs[2].done
    /\ hash_runs[1].bytes = <<0, 1>> /\ hash_runs[1].size = 1
    /\ hash_runs[1].reads = 3
    /\ hash_runs[2].bytes = <<0, 255>> /\ hash_runs[2].size = 2
    /\ hash_runs[2].reads = 2
    /\ hash_runs[2].digest =
          <<13, 0, 7, 13, 3, 4, 14, 15, 10, 12, 6, 3, 2, 8, 0, 0, 7, 10, 13, 6, 7, 12, 7, 14, 0, 10, 9, 8, 5, 14, 0, 0>>
    /\ hash_runs[1].digest # hash_runs[2].digest

\* C25: after every confirmed upload the record of the uploaded name holds the
\* digest of the bytes just uploaded and the id this upload was given, so that
\* the same bytes under another name are found by the duplicate loop
C25_RecordHoldsLatestUpload ==
    [][(now' = now + 1 /\ upload_call'.file # NoFile) =>
          /\ HasName(uploaded_files', upload_call'.file)
          /\ LET r == uploaded_files'[IndexOf(uploaded_files', upload_call'.file)]
             IN  /\ r.hash = upload_call'.digest
                 /\ r.file_id = now'
                 /\ \A n \in FileNames \ {upload_call'.file} :
                        DuplicatesOf(uploaded_files', n, upload_call'.digest) # <<>>
      ]_vars

\* the records an upload of this client created under the name a listing row shows
UploadedAs(reg, shown) ==
    {i \in DOMAIN reg : reg[i].upload_filename = shown}

\* C26: when the server has acknowledged the deletion of a row of the remote
\* listing that an upload of this client created, the registry holds no record
\* of that upload any more
C26_AckedDeleteRemovesRecord ==
    [][(DeleteFile /\ delete_call'.acked # {}) =>
          \A shown \in delete_call'.acked :
              (shown[1] # "" /\ UploadedAs(uploaded_files, shown) # {}) =>
                  UploadedAs(uploaded_files', shown) = {}]_vars

\* the worker threads that are in the loop body, or at the loop test with the
\* flag set: those that go on probing
Looping(positions, running) ==
    {w \in DOMAIN positions :
        positions[w] \in {"probe", "sleep"} \/ (positions[w] = "test" /\ running)}

\* C27: whatever the order of start and stop calls and worker steps, each
\* endpoint has at most one worker thread that goes on probing
C27_OneWorkerLoop ==
    /\ Cardinality(Looping(workers, keep_alive_running)) <= 1
    /\ Cardinality(Looping(ai_workers, ai_keepalive_running)) <= 1

\* the requests that have been started and have not returned to their thread
InFlight == {r \in DOMAIN ai_requests : ai_requests[r].pos # "done"}

\* C28: at most one AI chat request is in flight, whichever entry point
\* (Send button, Control-Return, quick-question button) starts the requests
C28_OneRequestInFlight == Cardinality(InFlight) <= 1

\* a disabled send button is enabled again later on
SendButtonReenabled == (ai_send_button = "disabled") ~> (ai_send_button = "normal")

\* the outcomes the claim counts as failures
FailureOutcomes ==
    {"timeout", "connection_error", "non200", "api_error", "bad_body",
     "request_exception"}

\* C29: send_message_to_ai never raises; a call that returns a success has
\* added the user message and then the reply to ai_chat_history, and nothing
\* else, and returns success = True with the reply; a call that fails returns
\* success = False with an error text and has not written ai_chat_history
C29_SendClassifies ==
    [][ProcessAiRequest =>
        IF send_call' # send_call
        THEN LET res == send_call'.result
                 user == Entry("user", Msg("question", send_call'.n))
             IN  /\ res.kind = "return"
                 /\ res.value.success = (send_call'.outcome \notin FailureOutcomes)
                 /\ IF res.value.success
                    THEN /\ res.value.error = "none"
                         /\ ai_chat_history' =
                                Append(ai_chat_history,
                                       Entry("assistant", res.value.response))
                         /\ ai_chat_history = Append(send_call'.previous, user) =>
                                ai_chat_history' = send_call'.previous \o
                                    <<user, Entry("assistant", res.value.response)>>
                    ELSE /\ res.value.error # "none"
                         /\ ai_chat_history' = ai_chat_history
        ELSE \E r \in DOMAIN ai_requests :
                /\ ai_requests[r].pos = "request" /\ ai_requests'[r].pos = "reply"
                /\ ai_chat_history' =
                       Append(ai_chat_history,
                              Entry("user", Msg("question", ai_requests[r].n)))
      ]_vars

\* the second message has been answered after the first one was: the history
\* is the one before the call followed by the question and the reply
C29_Witness ==
    /\ send_call.called /\ send_call.n = 2
    /\ send_call.result.value.success
    /\ Len(send_call.previous) = 2
    /\ ai_chat_history = send_call.previous \o
          <<Entry("user", Msg("question", 2)),
            Entry("assistant", send_call.result.value.response)>>

\* the entries add_to_ai_history was called with, from the a-th to the b-th call
AiAdded(a, b) ==
    [i \in 1..(b - a + 1) |->
        Entry(IF (a + i - 1) % 2 = 1 THEN "user" ELSE "assistant",
              Msg("Test message", a + i - 1))]

\* the messages add_chat_message was called with, from the a-th to the b-th call
ChatAdded(a, b) ==
    [i \in 1..(b - a + 1) |->
        [type |-> "system", title |-> a + i - 1, user |-> "Unknown"]]

\* the call whose entry is the oldest one a list cut to its last k entries
\* holds after n calls
FirstKept(n, k) == IF n > k THEN n - k + 1 ELSE 1

\* C30: after any number of add_to_ai_history calls ai_chat_history holds at
\* most 50 entries, the most recently added ones in the order of the calls;
\* after any number of add_chat_message calls chat_messages holds at most 100
\* entries, the most recent ones in order
C30_HistoriesBounded ==
    /\ Len(ai_chat_history) <= 50
    /\ ai_chat_history = AiAdded(FirstKept(ai_serial, 50), ai_serial)
    /\ Len(chat_messages) <= 100
    /\ chat_messages = ChatAdded(FirstKept(now, 100), now)

\* both histories are full and have lost their oldest entries
C30_Witness ==
    /\ ai_serial = 52 /\ Len(ai_chat_history) = 50
    /\ ai_chat_history[1].message.n = 3
    /\ now = 101 /\ Len(chat_messages) = 100
    /\ chat_messages[1].title = 2 /\ chat_messages[100].title = 101

====
